---- MODULE Spec2Model ----
(***************************************************************************)
(* Gateway supervision and health-gated backup/restore of the OpenClaw     *)
(* sandbox: the sync engine of src/gateway/sync.ts, the volume mounter of   *)
(* src/gateway/r2.ts and the restore section of start-openclaw.sh.          *)
(*                                                                         *)
(* Files are modelled by the version of their content (0 = no such file),  *)
(* directories by records of the files the engine reads or writes, command *)
(* output by sequences of tokens.                                          *)
(***************************************************************************)
EXTENDS Integers, Sequences, FiniteSets, TLC

\* ------------------------------------------------------------------ bounds
MaxClock == 2          \* last clock value of Spec (timestamped operations)
MaxRotate == 7         \* last clock value of SpecRotate
MaxAdmin == 1          \* timestamped operations of SpecAdmin
MaxVer == 2            \* versions of the gateway's files
MaxStamp == 2          \* well-formed marker timestamps of SpecBoot
MaxProcs == 2          \* processes the sandbox lists
MaxCallers == 2        \* requests of the worker in flight together

\* ------------------------------------------------------- program constants
MAX_VERSIONED_BACKUPS == 5
MinIdentityBytes == 100

VARIABLES
  local,    \* the state directory /root/.openclaw of the container
  r2,       \* the durable volume mounted at R2_MOUNT_PATH
  clock,    \* wall clock, one tick per timestamped operation
  gw,       \* the gateway process: "stopped", "ready" (script at exec), "running"
  op,       \* the public operation in flight
  mirror,   \* the rsync && rsync && date command of the last sync
  res,      \* what the last finished operation returned
  cmds,     \* commands the operation in flight (or last finished) has started
  snap,     \* the durable volume as it was when that operation began
  synced,   \* timestamp of the last syncToR2 if it returned success=true, else 0
  procs,    \* the processes the sandbox lists, in listing order
  callers,  \* the requests in flight: ensureRunning and restart calls
  stages    \* how far each listed startup process has come in the container

vars == <<local, r2, clock, gw, op, mirror, res, cmds, snap, synced, procs, callers, stages>>

\* ---------------------------------------------------------------- files
NoFile == 0
NoDir == [absent |-> TRUE]
NL == "\n"

\* The text of a sync marker: t > 0 is the output of `date -Iseconds` at
\* clock t; Garbage is text that is no date; DateLikeGarbage begins like a
\* date (YYYY-MM-DD) but is not one `date -d` can parse.
Garbage == -1
DateLikeGarbage == -2
\* a marker file with nothing in it (or only white space)
EmptyMarker == -3
MarkerNL == -9

NoDoc == [size |-> -1, heading |-> FALSE]
EmptyDoc == [size |-> 0, heading |-> FALSE]
Doc(n, h) == [size |-> n, heading |-> h]

\* workspace/skills: the identity document, the skill files, and skill files
\* whose names match the mirror's exclude patterns (*.lock, *.log, *.tmp)
SkillsDir(i, f, x) == [identity |-> i, files |-> f, locks |-> x]
\* the state directory: openclaw.json, clawdbot.json, .last-sync, workspace/skills
StateDir(c, l, m, s) == [cfg |-> c, legacy |-> l, marker |-> m, skills |-> s]

ImageSkills == SkillsDir(NoDoc, NoFile, NoFile)
FreshLocal == StateDir(NoFile, NoFile, NoFile, ImageSkills)

\* ------------------------------------------------------ command output
Includes(out, tok) == \E i \in 1..Len(out) : out[i] = tok

RECURSIVE TrimLeft(_, _)
TrimLeft(s, ws) ==
  IF s = <<>> THEN s
  ELSE IF Head(s) = ws THEN TrimLeft(Tail(s), ws) ELSE s

RECURSIVE TrimRight(_, _)
TrimRight(s, ws) ==
  IF s = <<>> THEN s
  ELSE IF s[Len(s)] = ws THEN TrimRight(SubSeq(s, 1, Len(s) - 1), ws) ELSE s

Trim(s, ws) == TrimRight(TrimLeft(s, ws), ws)

\* how a remote command ends, as the caller sees it
\*   "ok"     it ran to completion and its output is read
\*   "silent" it did not run (or hung) and the logs read back empty
\*   "throw"  startProcess or getLogs threw
Outcomes == {"ok", "silent", "throw"}
ExcMsg == <<"sandbox", "unavailable">>

Seen(o, out) == IF o = "ok" THEN out ELSE <<>>

\* ------------------------------------------------------------ health gate
ConfigCheckOut(l) ==
  IF l.cfg # NoFile THEN <<"ok", NL>>
  ELSE IF l.legacy # NoFile THEN <<"ok", NL>>
  ELSE <<>>

\* the size test written -ge instead of -gt
IdentityCheckOutAtLeast(l) ==
  LET d == l.skills.identity IN
  IF d.size < 0 THEN <<"missing", NL>>
  ELSE IF d.size = 0 THEN <<"empty", NL>>
  ELSE IF d.heading /\ d.size >= MinIdentityBytes THEN <<"healthy", NL>>
  ELSE <<"minimal", NL>>

IdentityCheckOut(l) ==
  LET d == l.skills.identity IN
  IF d.size < 0 THEN <<"missing", NL>>
  ELSE IF d.size = 0 THEN <<"empty", NL>>
  ELSE IF d.heading /\ d.size > MinIdentityBytes THEN <<"healthy", NL>>
  ELSE <<"minimal", NL>>

ReasonNoConfig == <<"Missing", "openclaw.json">>
ReasonMissing ==
  <<"IDENTITY.md", "does", "not", "exist", "-", "appears", "to", "be", "fresh", "container">>
ReasonEmpty ==
  <<"IDENTITY.md", "is", "empty", "-", "appears", "to", "be", "fresh", "container">>
ReasonMinimal ==
  <<"IDENTITY.md", "has", "minimal", "content", "-", "may", "be", "fresh/template", "state">>
ReasonError(msg) == <<"Health", "check", "error:">> \o msg

Healthy == [healthy |-> TRUE, reason |-> <<>>]
Unhealthy(r) == [healthy |-> FALSE, reason |-> r]

\* isSourceHealthy with the outcomes o1, o2 of its two check commands
isSourceHealthy(l, o1, o2) ==
  IF o1 = "throw" THEN Unhealthy(ReasonError(ExcMsg))
  ELSE IF ~Includes(Seen(o1, ConfigCheckOut(l)), "ok") THEN Unhealthy(ReasonNoConfig)
  ELSE IF o2 = "throw" THEN Unhealthy(ReasonError(ExcMsg))
  ELSE LET identityStatus == Trim(Seen(o2, IdentityCheckOut(l)), NL) IN
       IF identityStatus = <<"missing">> THEN Unhealthy(ReasonMissing)
       ELSE IF identityStatus = <<"empty">> THEN Unhealthy(ReasonEmpty)
       ELSE IF identityStatus = <<"minimal">> THEN Unhealthy(ReasonMinimal)
       ELSE Healthy

\* the commands isSourceHealthy starts
GateCmds(l, o1, o2) ==
  IF o1 = "throw" \/ ~Includes(Seen(o1, ConfigCheckOut(l)), "ok")
  THEN <<"configCheck">>
  ELSE <<"configCheck", "identityCheck">>

\* --------------------------------------------------------- durable volume
\* <mount>/openclaw, <mount>/clawdbot (legacy structured), <mount>/clawdbot.json
\* (legacy flat), <mount>/skills, <mount>/.last-sync, <mount>/backups/*,
\* <mount>/golden-backup/*
Volume(oc, cb, fl, sk, m, bs, gs) ==
  [openclaw |-> oc, clawdbot |-> cb, flat |-> fl, skills |-> sk, marker |-> m,
   backups |-> bs, golden |-> gs]

\* a directory of backups/ or golden-backup/: its name, its mtime, and what
\* it holds: openclaw/, clawdbot/, files directly in it (flat), skills/,
\* .last-sync
BackupDir(n, t, oc, cb, fl, sk, m) ==
  [name |-> n, mtime |-> t, openclaw |-> oc, clawdbot |-> cb, flat |-> fl,
   skills |-> sk, marker |-> m]

EmptyVolume == Volume(NoDir, NoDir, NoFile, NoDir, NoFile, {}, {})

\* new Date().toISOString() at clock t, as characters: <date>:<time>.<ms>Z
IsoString(t) == <<ToString(t), ":", "0", ".", "0", "Z">>

\* only the colons replaced
RECURSIVE DashColonsOnly(_)
DashColonsOnly(s) ==
  IF s = <<>> THEN <<>>
  ELSE <<IF Head(s) = ":" THEN "-" ELSE Head(s)>> \o DashColonsOnly(Tail(s))

\* .replace(/[:.]/g, '-')
RECURSIVE DashColonsAndDots(_)
DashColonsAndDots(s) ==
  IF s = <<>> THEN <<>>
  ELSE <<IF Head(s) \in {":", "."} THEN "-" ELSE Head(s)>> \o DashColonsAndDots(Tail(s))

TimestampName(t) == DashColonsAndDots(IsoString(t))

\* ------------------------------------------------------- versioned backup
HasCurrentData(d) == d.openclaw # NoDir /\ d.openclaw.cfg # NoFile
HasLegacyData(d) == d.clawdbot # NoDir /\ d.clawdbot.legacy # NoFile

\* stdout of the backup command of createVersionedBackup
BackupOut(d) ==
  IF HasCurrentData(d) \/ HasLegacyData(d) THEN <<"backed_up", NL>>
  ELSE <<"no_existing_data", NL>>

\* the directory the backup command writes at clock t
NewBackup(d, t) ==
  IF HasCurrentData(d)
  THEN BackupDir(TimestampName(t), t, d.openclaw, NoDir, NoDir, d.skills, d.marker)
  ELSE BackupDir(TimestampName(t), t, NoDir, d.clawdbot, NoDir, d.skills, d.marker)

\* mkdir -p and cp -r into backups/<timestamp>
BackupCopy(d, t) ==
  IF HasCurrentData(d) \/ HasLegacyData(d)
  THEN [d EXCEPT !.backups =
          {b \in d.backups : b.name # TimestampName(t)} \cup {NewBackup(d, t)}]
  ELSE d

\* tail -n +(MAX_VERSIONED_BACKUPS + 2): one directory too many is kept
PruneKeepsSix(bs) ==
  {b \in bs : Cardinality({c \in bs : c.mtime > b.mtime}) < MAX_VERSIONED_BACKUPS + 1}

\* ls -tr instead of ls -t: the oldest directories are kept
PruneKeepsOldest(bs) ==
  {b \in bs : Cardinality({c \in bs : c.mtime < b.mtime}) < MAX_VERSIONED_BACKUPS}

\* ls -t | tail -n +(MAX_VERSIONED_BACKUPS + 1) | xargs -r rm -rf
Newer(bs, b) == {c \in bs : c.mtime > b.mtime}
PruneBackups(bs) == {b \in bs : Cardinality(Newer(bs, b)) < MAX_VERSIONED_BACKUPS}

\* the cleanup command run after a backup command that found nothing
BackupVerdictPrunes(d, o) ==
  IF o = "throw" THEN "failed"
  ELSE IF ~Includes(Seen(o, BackupOut(d) \o <<"backed_up", NL>>), "backed_up") THEN "failed"
  ELSE "prune"

\* what createVersionedBackup returns after its backup command ended o
\* ("late": the command did its work after the wait gave up)
BackupVerdict(d, o) ==
  IF o = "throw" THEN "failed"
  ELSE IF Includes(Seen(o, BackupOut(d)), "no_existing_data") THEN "nodata"
  ELSE IF ~Includes(Seen(o, BackupOut(d)), "backed_up") THEN "failed"
  ELSE "prune"

\* ------------------------------------------------------------------ mirror
\* rsync -r --no-times --delete --exclude='*.lock' ... /root/.openclaw/ <mount>/openclaw/
\* files matching an exclude pattern are neither copied nor deleted
KeptLocks(dst) == IF dst = NoDir THEN NoFile ELSE dst.skills.locks
MirrorState(l, dst) == [l EXCEPT !.skills.locks = KeptLocks(dst)]
\* rsync -r --no-times --delete /root/.openclaw/workspace/skills/ <mount>/skills/
MirrorSkillsDir(l) == l.skills

\* cmd1 ; cmd2 ; cmd3 instead of cmd1 && cmd2 && cmd3
MirrorNextSemicolons(stage, ok) ==
  IF stage = "config" THEN "skills"
  ELSE IF stage = "skills" THEN "date"
  ELSE "done"

\* the stage after a stage of cmd1 && cmd2 && cmd3 ended with ok
MirrorNext(stage, ok) ==
  IF ~ok THEN "failed"
  ELSE IF stage = "config" THEN "skills"
  ELSE IF stage = "skills" THEN "date"
  ELSE "done"

NoMirror == [stage |-> "none", copied |-> {}]
MirrorRunning == mirror.stage \in {"config", "skills", "date"}

\* ----------------------------------------------------------------- results
Result(o, s, e, k, ls, p) ==
  [op |-> o, success |-> s, error |-> e, skippedReason |-> k, lastSync |-> ls,
   path |-> p]
NoResult == Result("none", FALSE, "", <<>>, <<>>, <<>>)

\* the operation in flight: its name, where it is, its timestamp, what the
\* gate answered, what createVersionedBackup returned, whether the cleanup
\* command ran, whether syncToR2's try caught an exception, and the marker
\* text it read back
Env(k, s, a, ak, as) ==
  [R2_ACCESS_KEY_ID |-> k, R2_SECRET_ACCESS_KEY |-> s, CF_ACCOUNT_ID |-> a,
   AWS_ACCESS_KEY_ID |-> ak, AWS_SECRET_ACCESS_KEY |-> as]
AllCreds == Env(TRUE, TRUE, TRUE, TRUE, TRUE)
NoEnv == Env(FALSE, FALSE, FALSE, FALSE, FALSE)

\* (env and mount: the bindings the operation was called with and how its
\* call of mountR2Storage went; copying: its backup command is still running
\* after the wait for it gave up)
Idle ==
  [name |-> "none", pc |-> "idle", ts |-> 0, gate |-> "none", backup |-> "none",
   pruned |-> FALSE, threw |-> FALSE, out |-> <<>>, env |-> NoEnv, mount |-> "none",
   copying |-> FALSE]

\* a request of the worker: which call it makes, where the call stands,
\* the process a restart found, how an ensureRunning went, and the
\* restart's steps and response until the relaunch it fired moves on
Callers == 1..MaxCallers
NoResp == [sent |-> FALSE, killedPrevious |-> FALSE, previousProcessId |-> 0]
NoCall ==
  [kind |-> "none", pc |-> "idle", found |-> 0, outcome |-> "none",
   trace |-> <<>>, resp |-> NoResp, route |-> "none", token |-> FALSE, gate |-> "none"]
NoCallers == [c \in Callers |-> NoCall]

\* the bindings of the worker the engine and the mounter read: which are set

\* the ways the two check commands of the health gate can end: the second
\* is started only when the first printed ok
GateOutcomes ==
  {<<"ok", "ok">>, <<"ok", "silent">>, <<"ok", "throw">>, <<"silent", "ok">>, <<"throw", "ok">>}
\* the situations of a call: every binding set and mountBucket working,
\* mountBucket throwing, the account id missing, the mounter's own
\* credentials missing
Calls ==
  {<<AllCreds, TRUE>>, <<AllCreds, FALSE>>, <<Env(TRUE, TRUE, FALSE, TRUE, TRUE), TRUE>>,
   <<Env(TRUE, TRUE, TRUE, FALSE, FALSE), TRUE>>}
\* the ways the verify and restore commands of restoreFromBackup can end
RestoreOutcomes ==
  {<<"ok", "ok">>, <<"ok", "late">>, <<"ok", "silent">>, <<"ok", "throw">>,
   <<"silent", "ok">>, <<"throw", "ok">>}

\* the check each public operation of the engine begins with
Configured(env) == env.R2_ACCESS_KEY_ID /\ env.R2_SECRET_ACCESS_KEY /\ env.CF_ACCOUNT_ID

\* the credentials not looked at
MountUnchecked(env, bucketOk) == bucketOk

\* mountR2Storage: false without credentials or when mountBucket throws
mountR2Storage(env, bucketOk) ==
  IF ~env.AWS_ACCESS_KEY_ID \/ ~env.AWS_SECRET_ACCESS_KEY \/ ~env.CF_ACCOUNT_ID THEN FALSE
  ELSE bucketOk

\* inputs that cannot matter to a call are not enumerated: the outcomes of
\* commands the call does not reach
Works(c) == Configured(c[1]) /\ mountR2Storage(c[1], c[2])
GatesOf(c) == IF Works(c) THEN GateOutcomes ELSE {<<"ok", "ok">>}

\* syncToR2 without the early return on an unhealthy source
SyncEntryNoGate(env, mounted, h) ==
  IF ~Configured(env) THEN "unconfigured"
  ELSE IF ~mounted THEN "unmounted"
  ELSE "backup"

\* syncToR2 going on after a mount that failed
SyncEntryMountIgnored(env, mounted, h) ==
  IF ~Configured(env) THEN "unconfigured"
  ELSE IF ~h.healthy THEN "skipped"
  ELSE "backup"

\* ------------------------------------------------------------- syncToR2
\* where syncToR2 goes after its checks, h being the health gate's answer
SyncEntry(env, mounted, h) ==
  IF ~Configured(env) THEN "unconfigured"
  ELSE IF ~mounted THEN "unmounted"
  ELSE IF ~h.healthy THEN "skipped"
  ELSE "backup"

SyncEntryCmds(env, l, o1, o2) ==
  IF ~Configured(env) THEN <<>>
  ELSE <<"mount">> \o GateCmds(l, o1, o2)

\* the skip reported without the gate's reason
SyncEntryResultNoReason(entry, h) ==
  IF entry = "unconfigured"
  THEN Result("sync", FALSE, "R2 storage is not configured", <<>>, <<>>, <<>>)
  ELSE IF entry = "unmounted"
  THEN Result("sync", FALSE, "Failed to mount R2 storage", <<>>, <<>>, <<>>)
  ELSE IF entry = "skipped"
  THEN Result("sync", FALSE, "Sync skipped: source data is not healthy", <<>>, <<>>, <<>>)
  ELSE NoResult

SyncEntryResult(entry, h) ==
  IF entry = "unconfigured"
  THEN Result("sync", FALSE, "R2 storage is not configured", <<>>, <<>>, <<>>)
  ELSE IF entry = "unmounted"
  THEN Result("sync", FALSE, "Failed to mount R2 storage", <<>>, <<>>, <<>>)
  ELSE IF entry = "skipped"
  THEN Result("sync", FALSE, "Sync skipped: source data is not healthy", h.reason, <<>>, <<>>)
  ELSE NoResult

CanStart == op.pc = "idle" /\ ~MirrorRunning

SyncBegin(env, bucketOk, o1, o2) ==
  LET mounted == mountR2Storage(env, bucketOk)
      h == isSourceHealthy(local, o1, o2)
      entry == SyncEntry(env, mounted, h)
  IN /\ CanStart
     /\ snap' = r2
     /\ cmds' = IF mounted THEN SyncEntryCmds(env, local, o1, o2)
                ELSE IF Configured(env) THEN <<"mount">> ELSE <<>>
     /\ res' = SyncEntryResult(entry, h)
     /\ op' = [Idle EXCEPT
                 !.name = "sync",
                 !.pc = IF entry = "backup" THEN "backup" ELSE "done",
                 !.ts = IF entry = "backup" THEN clock + 1 ELSE 0,
                 !.gate = IF mounted /\ Configured(env)
                          THEN (IF h.healthy THEN "passed" ELSE "refused")
                          ELSE "none",
                 !.env = env,
                 !.mount = IF ~Configured(env) THEN "none"
                           ELSE IF mounted THEN "ok" ELSE "failed"]
     /\ clock' = IF entry = "backup" THEN clock + 1 ELSE clock
     /\ synced' = 0
     /\ UNCHANGED <<local, r2, gw, mirror, procs, callers, stages>>

\* a failed backup ending the sync
AfterBackupBlocks(verdict) ==
  IF verdict = "prune" THEN "prune" ELSE IF verdict = "failed" THEN "done" ELSE "mirror"

\* where the call goes once the backup command is over: on to the cleanup
\* command inside createVersionedBackup, or back in syncToR2, which goes on
\* to the mirror whatever createVersionedBackup returned
AfterBackup(verdict) == IF verdict = "prune" THEN "prune" ELSE "mirror"

\* createVersionedBackup: the backup command
SyncBackup(o) ==
  LET verdict == BackupVerdict(r2, o) IN
  /\ op.name = "sync" /\ op.pc = "backup"
  /\ cmds' = Append(cmds, "backup")
  /\ r2' = IF o \in {"ok", "late"} THEN BackupCopy(r2, op.ts) ELSE r2
  /\ op' = [op EXCEPT !.pc = AfterBackup(verdict), !.backup = verdict]
  /\ UNCHANGED <<local, clock, gw, mirror, res, snap, synced, procs, callers, stages>>

\* createVersionedBackup: the 30 s wait for the backup command runs out
\* while the command is still copying; nothing stops the command, and
\* createVersionedBackup reads a stdout without backed_up
SyncBackupOverrun ==
  /\ op.name = "sync" /\ op.pc = "backup"
  /\ HasCurrentData(r2) \/ HasLegacyData(r2)
  /\ cmds' = Append(cmds, "backup")
  /\ op' = [op EXCEPT !.pc = AfterBackup(BackupVerdict(r2, "late")),
                      !.backup = BackupVerdict(r2, "late"),
                      !.copying = TRUE]
  /\ UNCHANGED <<local, r2, clock, gw, mirror, res, snap, synced, procs, callers, stages>>

\* the backup command left running copies what the volume holds by then
BackupCopyEnds ==
  /\ op.name = "sync" /\ op.copying
  /\ r2' = BackupCopy(r2, op.ts)
  /\ op' = [op EXCEPT !.copying = FALSE]
  /\ UNCHANGED <<local, clock, gw, mirror, res, cmds, snap, synced, procs, callers, stages>>

\* createVersionedBackup: the cleanup command; its result is not read, but a
\* startProcess that throws is caught and reported as a failed backup
SyncPrune(o) ==
  /\ op.name = "sync" /\ op.pc = "prune"
  /\ cmds' = Append(cmds, "prune")
  /\ r2' = IF o \in {"ok", "late"}
           THEN [r2 EXCEPT !.backups = PruneBackups(r2.backups)] ELSE r2
  /\ op' = [op EXCEPT !.pc = "mirror",
                      !.backup = IF o = "throw" THEN "failed" ELSE "created",
                      !.pruned = (o \in {"ok", "late"})]
  /\ UNCHANGED <<local, clock, gw, mirror, res, snap, synced, procs, callers, stages>>

\* startProcess(syncCmd)
SyncMirrorStart(started) ==
  /\ op.name = "sync" /\ op.pc = "mirror"
  /\ cmds' = Append(cmds, "mirror")
  /\ IF started
     THEN /\ mirror' = [stage |-> "config", copied |-> {}]
          /\ op' = [op EXCEPT !.pc = "wait"]
          /\ res' = res
     ELSE /\ mirror' = mirror
          /\ op' = [op EXCEPT !.pc = "done", !.threw = TRUE]
          /\ res' = Result("sync", FALSE, "Sync error", <<>>, <<>>, <<>>)
  /\ UNCHANGED <<local, r2, clock, gw, snap, synced, procs, callers, stages>>

\* the sync command itself, one of its three parts at a time; a command that
\* ends when no caller holds its handle any more leaves nothing behind
MirrorStep(ok) ==
  /\ MirrorRunning
  /\ op.pc # "done"
  /\ r2' = IF ~ok THEN r2
           ELSE IF mirror.stage = "config"
           THEN [r2 EXCEPT !.openclaw = MirrorState(local, r2.openclaw)]
           ELSE IF mirror.stage = "skills"
           THEN [r2 EXCEPT !.skills = MirrorSkillsDir(local)]
           ELSE [r2 EXCEPT !.marker = clock]
  /\ mirror' = IF op.pc = "idle" /\ MirrorNext(mirror.stage, ok) \in {"done", "failed"}
                THEN NoMirror
                ELSE [stage |-> MirrorNext(mirror.stage, ok),
                      copied |-> IF ok /\ mirror.stage \in {"config", "skills"}
                                 THEN mirror.copied \cup {mirror.stage}
                                 ELSE mirror.copied]
  /\ UNCHANGED <<local, clock, gw, op, res, cmds, snap, synced, procs, callers, stages>>

\* cat <mount>/.last-sync
CatOut(m) == IF m = NoFile THEN <<>> ELSE <<m, MarkerNL>>
\* /^\d{4}-\d{2}-\d{2}/
IsDateLike(m) == m > 0 \/ m = DateLikeGarbage

\* success for any marker text at all
SyncVerdictAnyContent(out) ==
  LET lastSync == Trim(out, MarkerNL) IN
  IF lastSync # <<>>
  THEN Result("sync", TRUE, "", <<>>, lastSync, <<>>)
  ELSE Result("sync", FALSE, "Sync failed", <<>>, <<>>, <<>>)

\* what syncToR2 returns once it has read the marker back as out
SyncVerdict(out) ==
  LET lastSync == Trim(out, MarkerNL) IN
  IF lastSync # <<>> /\ IsDateLike(lastSync[1])
  THEN Result("sync", TRUE, "", <<>>, lastSync, <<>>)
  ELSE Result("sync", FALSE, "Sync failed", <<>>, <<>>, <<>>)

\* the wait for the sync command ends (it finished, or the 30 s ran out) and
\* the marker is read back
SyncVerify(o) ==
  /\ op.name = "sync" /\ op.pc = "wait"
  /\ cmds' = Append(cmds, "readMarker")
  /\ res' = IF o = "throw"
            THEN Result("sync", FALSE, "Sync error", <<>>, <<>>, <<>>)
            ELSE SyncVerdict(Seen(o, CatOut(r2.marker)))
  /\ op' = [op EXCEPT !.pc = "done", !.threw = (o = "throw"),
                      !.out = Seen(o, CatOut(r2.marker))]
  /\ synced' = IF res'.success THEN op.ts ELSE 0
  /\ UNCHANGED <<local, r2, clock, gw, mirror, snap, procs, callers, stages>>

\* ----------------------------------------------------- createGoldenBackup
\* createGoldenBackup without the early return on an unhealthy source
GoldenEntryNoGate(env, mounted, h) ==
  IF ~Configured(env) THEN "unconfigured"
  ELSE IF ~mounted THEN "unmounted"
  ELSE "write"

GoldenEntry(env, mounted, h) ==
  IF ~Configured(env) THEN "unconfigured"
  ELSE IF ~mounted THEN "unmounted"
  ELSE IF ~h.healthy THEN "refused"
  ELSE "write"

\* the copy written under a name that is not the call's timestamp
NewGoldenUnstamped(l, t) ==
  BackupDir(<<"latest">>, t, NoDir, NoDir, [l EXCEPT !.marker = NoFile], l.skills, NoFile)

\* cp -r /root/.openclaw/* <golden>/ (the glob skips .last-sync), then
\* cp -r /root/.openclaw/workspace/skills/* <golden>/skills/
NewGolden(l, t) ==
  BackupDir(TimestampName(t), t, NoDir, NoDir, [l EXCEPT !.marker = NoFile], l.skills, NoFile)

\* the golden namespace emptied before the copy
GoldenReplace(d, l, t) ==
  [d EXCEPT !.golden = {NewGolden(l, t)}]

GoldenCopy(d, l, t) ==
  [d EXCEPT !.golden = {g \in d.golden : g.name # TimestampName(t)} \cup {NewGolden(l, t)}]

\* (the refusal carries the gate's reason at the end of its error text; it is
\* kept apart here, in skippedReason)
GoldenResult(entry, h, o, t) ==
  IF entry = "unconfigured"
  THEN Result("golden", FALSE, "R2 storage is not configured", <<>>, <<>>, <<>>)
  ELSE IF entry = "unmounted"
  THEN Result("golden", FALSE, "Failed to mount R2 storage", <<>>, <<>>, <<>>)
  ELSE IF entry = "refused"
  THEN Result("golden", FALSE, "Cannot create golden backup", h.reason, <<>>, <<>>)
  ELSE IF o = "throw"
  THEN Result("golden", FALSE, "Unknown error", <<>>, <<>>, <<>>)
  ELSE IF Includes(Seen(o, <<"golden_created", NL>>), "golden_created")
  THEN Result("golden", TRUE, "", <<>>, <<>>, TimestampName(t))
  ELSE Result("golden", FALSE, "Golden backup command did not complete", <<>>, <<>>, <<>>)

GoldenBackup(env, bucketOk, o1, o2, o) ==
  LET mounted == mountR2Storage(env, bucketOk)
      h == isSourceHealthy(local, o1, o2)
      entry == GoldenEntry(env, mounted, h)
      t == clock + 1
  IN /\ CanStart
     /\ snap' = r2
     /\ cmds' = (IF mounted THEN SyncEntryCmds(env, local, o1, o2)
                 ELSE IF Configured(env) THEN <<"mount">> ELSE <<>>)
                \o (IF entry = "write" THEN <<"golden">> ELSE <<>>)
     /\ r2' = IF entry = "write" /\ o \in {"ok", "late"} THEN GoldenCopy(r2, local, t) ELSE r2
     /\ res' = GoldenResult(entry, h, o, t)
     /\ op' = [Idle EXCEPT
                 !.name = "golden", !.pc = "done",
                 !.ts = IF entry = "write" THEN t ELSE 0,
                 !.gate = IF mounted /\ Configured(env)
                          THEN (IF h.healthy THEN "passed" ELSE "refused")
                          ELSE "none",
                 !.env = env,
                 !.mount = IF ~Configured(env) THEN "none"
                           ELSE IF mounted THEN "ok" ELSE "failed"]
     /\ clock' = IF entry = "write" THEN t ELSE clock
     /\ UNCHANGED <<local, gw, mirror, synced, procs, callers, stages>>

\* ------------------------------------------------------------ listBackups
Names(bs) == {b.name : b \in bs}

ListResult(v, g, e) ==
  [op |-> "list", success |-> (e = ""), error |-> e, versioned |-> v, golden |-> g]

\* the exception of the list command leaving listBackups
listBackupsUncaught(env, mounted, d, o) ==
  IF ~Configured(env) THEN ListResult({}, {}, "R2 storage is not configured")
  ELSE IF ~mounted THEN ListResult({}, {}, "Failed to mount R2 storage")
  ELSE IF o = "throw" THEN [op |-> "thrown", success |-> FALSE, error |-> "Unknown error"]
  ELSE IF o = "ok" THEN ListResult(Names(d.backups), Names(d.golden), "")
  ELSE ListResult({}, {}, "")

listBackups(env, mounted, d, o) ==
  IF ~Configured(env) THEN ListResult({}, {}, "R2 storage is not configured")
  ELSE IF ~mounted THEN ListResult({}, {}, "Failed to mount R2 storage")
  ELSE IF o = "throw" THEN ListResult({}, {}, "Unknown error")
  ELSE IF o = "ok" THEN ListResult(Names(d.backups), Names(d.golden), "")
  ELSE ListResult({}, {}, "")

ListBackups(env, bucketOk, o) ==
  LET mounted == mountR2Storage(env, bucketOk) IN
  /\ CanStart
  /\ snap' = r2
  /\ cmds' = IF mounted THEN <<"mount", "list">>
             ELSE IF Configured(env) THEN <<"mount">> ELSE <<>>
  /\ res' = listBackups(env, mounted, r2, o)
  /\ op' = [Idle EXCEPT !.name = "list", !.pc = "done"]
  /\ UNCHANGED <<local, r2, clock, gw, mirror, synced, procs, callers, stages>>

\* ------------------------------------------------------ restoreFromBackup
SafeChars ==
  {"T", "Z", "-", "_", "e", "t", "c"} \cup {ToString(t) : t \in 0..9}

\* the name used as it came
SanitizeKeepAll(s) == s

\* backupName.replace(/[^a-zA-Z0-9_-]/g, '')
RECURSIVE Sanitize(_)
Sanitize(s) ==
  IF s = <<>> THEN <<>>
  ELSE (IF Head(s) \in SafeChars THEN <<Head(s)>> ELSE <<>>) \o Sanitize(Tail(s))

Namespace(d, kind) == IF kind = "golden" THEN d.golden ELSE d.backups

\* R2_MOUNT_PATH, and `${R2_MOUNT_PATH}/${backupDir}/${safeName}` as the
\* sequence of its separators, directory names and the characters of safeName
R2_MOUNT_PATH == <<"/", "data", "/", "openclaw">>
backupDir(kind) == IF kind = "golden" THEN "golden-backup" ELSE "backups"
backupPath(kind, safeName) == R2_MOUNT_PATH \o <<"/", backupDir(kind), "/">> \o safeName

\* test -d "<mount>/<namespace>/<safeName>": an empty safeName names the
\* namespace directory itself
TargetExists(d, kind, safeName) ==
  IF safeName = <<>> THEN Namespace(d, kind) # {}
  ELSE \E b \in Namespace(d, kind) : b.name = safeName

\* cp -r src/* dst/ for the files of workspace/skills: a file of src
\* replaces the one of dst, other files of dst stay
MergeDoc(dst, src) == IF src.size < 0 THEN dst ELSE src
MergeFile(dst, src) == IF src = NoFile THEN dst ELSE src
MergeSkills(dst, src) ==
  SkillsDir(MergeDoc(dst.identity, src.identity), MergeFile(dst.files, src.files),
            MergeFile(dst.locks, src.locks))

\* cp -r src/* /root/.openclaw/ (the glob skips .last-sync)
CopyVisible(l, src) ==
  StateDir(MergeFile(l.cfg, src.cfg), MergeFile(l.legacy, src.legacy), l.marker,
           MergeSkills(l.skills, src.skills))

\* mv without the test for openclaw.json
RenameAlways(l) ==
  IF l.legacy # NoFile THEN [l EXCEPT !.cfg = l.legacy, !.legacy = NoFile] ELSE l

\* clawdbot.json becomes openclaw.json unless there is one already
RenameIfNoCurrent(l) ==
  IF l.legacy # NoFile /\ l.cfg = NoFile
  THEN [l EXCEPT !.cfg = l.legacy, !.legacy = NoFile]
  ELSE l

\* the config part of the restore command for the backup directory b
RestoreConfig(l, b) ==
  IF b.openclaw # NoDir THEN CopyVisible(l, b.openclaw)
  ELSE IF b.clawdbot # NoDir THEN RenameIfNoCurrent(CopyVisible(l, b.clawdbot))
  ELSE IF b.flat # NoDir /\ b.flat.cfg # NoFile THEN CopyVisible(l, b.flat)
  ELSE IF b.flat # NoDir /\ b.flat.legacy # NoFile
  THEN RenameIfNoCurrent(CopyVisible(l, b.flat))
  ELSE l

RestoreSkills(l, b) ==
  IF b.skills # NoDir THEN [l EXCEPT !.skills = MergeSkills(l.skills, b.skills)] ELSE l

\* what the namespace directory itself looks like to the restore command:
\* it holds backup directories only
NamespaceRoot == BackupDir(<<>>, 0, NoDir, NoDir, NoDir, NoDir, NoFile)

Target(d, kind, safeName) ==
  IF safeName = <<>> THEN NamespaceRoot
  ELSE CHOOSE b \in Namespace(d, kind) : b.name = safeName

RestoreInto(l, b) == RestoreSkills(RestoreConfig(l, b), b)

\* the answer of the verify command taken for granted
RestoreResultNoVerify(env, mounted, found, ov, o) ==
  IF ~Configured(env)
  THEN Result("restore", FALSE, "R2 storage is not configured", <<>>, <<>>, <<>>)
  ELSE IF ~mounted
  THEN Result("restore", FALSE, "Failed to mount R2 storage", <<>>, <<>>, <<>>)
  ELSE IF ov = "throw" \/ o = "throw"
  THEN Result("restore", FALSE, "Unknown error", <<>>, <<>>, <<>>)
  ELSE IF Includes(Seen(o, <<"restored", NL>>), "restored") \/ ~found
  THEN Result("restore", TRUE, "", <<>>, <<>>, <<>>)
  ELSE Result("restore", FALSE, "Restore command did not complete", <<>>, <<>>, <<>>)

RestoreResult(env, mounted, found, ov, o) ==
  IF ~Configured(env)
  THEN Result("restore", FALSE, "R2 storage is not configured", <<>>, <<>>, <<>>)
  ELSE IF ~mounted
  THEN Result("restore", FALSE, "Failed to mount R2 storage", <<>>, <<>>, <<>>)
  ELSE IF ov = "throw" THEN Result("restore", FALSE, "Unknown error", <<>>, <<>>, <<>>)
  ELSE IF ~found THEN Result("restore", FALSE, "Backup not found", <<>>, <<>>, <<>>)
  ELSE IF o = "throw" THEN Result("restore", FALSE, "Unknown error", <<>>, <<>>, <<>>)
  ELSE IF Includes(Seen(o, <<"restored", NL>>), "restored")
  THEN Result("restore", TRUE, "", <<>>, <<>>, <<>>)
  ELSE Result("restore", FALSE, "Restore command did not complete", <<>>, <<>>, <<>>)

\* the result with the call it answers: the namespace asked for, the
\* path built from the name, the state directory as the call found it and
\* restoreLogs.stdout as the call read it
RestoreReturn(r, kind, path, l, out, backupName) ==
  [op |-> r.op, success |-> r.success, error |-> r.error, path |-> path,
   kind |-> kind, before |-> l, stdout |-> out, name |-> backupName]

RestoreFromBackup(env, bucketOk, kind, backupName, ov, o) ==
  LET mounted == mountR2Storage(env, bucketOk)
      safeName == Sanitize(backupName)
      found == /\ mounted
               /\ Includes(Seen(ov, IF TargetExists(r2, kind, safeName)
                                    THEN <<"exists", NL>> ELSE <<>>), "exists")
      ran == found /\ o \in {"ok", "late"}
  IN /\ CanStart
     /\ snap' = r2
     /\ cmds' = IF ~mounted THEN (IF Configured(env) THEN <<"mount">> ELSE <<>>)
                ELSE IF found /\ ov # "throw" THEN <<"mount", "verify", "restore">>
                ELSE <<"mount", "verify">>
     /\ local' = IF ran /\ ov # "throw" THEN RestoreInto(local, Target(r2, kind, safeName))
                 ELSE local
     /\ res' = RestoreReturn(RestoreResult(env, mounted, found, ov, o), kind,
                              backupPath(kind, safeName), local,
                              IF found /\ ov # "throw" /\ o # "throw"
                              THEN Seen(o, <<"restored", NL>>) ELSE <<>>,
                              backupName)
     /\ op' = [Idle EXCEPT !.name = "restore", !.pc = "done"]
     /\ UNCHANGED <<r2, clock, gw, mirror, synced, procs, callers, stages>>

\* ------------------------------------------------------ start-openclaw.sh
\* date -d "$TIME" +%s 2>/dev/null || echo "0", today being the midnight
\* that began the day of the run: GNU date reads an empty string as that
\* midnight, and fails on text it cannot parse
Epoch(m, today) ==
  IF m > 0 THEN m
  ELSE IF m = EmptyMarker THEN today
  ELSE 0

\* -ge instead of -gt
should_restore_or_equal(d, l, today) ==
  IF d.marker = NoFile THEN FALSE
  ELSE IF l.marker = NoFile THEN TRUE
  ELSE Epoch(d.marker, today) >= Epoch(l.marker, today)

\* should_restore_from_r2, d being the mounted volume
should_restore_from_r2(d, l, today) ==
  IF d.marker = NoFile THEN FALSE
  ELSE IF l.marker = NoFile THEN TRUE
  ELSE Epoch(d.marker, today) > Epoch(l.marker, today)

\* cp -a src/. /root/.openclaw/ (dotfiles too)
CopyAll(l, src) ==
  StateDir(MergeFile(l.cfg, src.cfg), MergeFile(l.legacy, src.legacy),
           MergeFile(l.marker, src.marker), MergeSkills(l.skills, src.skills))

\* mv clawdbot.json openclaw.json
RenameLegacy(l) ==
  IF l.legacy # NoFile THEN [l EXCEPT !.cfg = l.legacy, !.legacy = NoFile] ELSE l

\* cp -f "$BACKUP_DIR/.last-sync" "$CONFIG_DIR/.last-sync" 2>/dev/null || true
CopyMarker(l, d) == [l EXCEPT !.marker = MergeFile(l.marker, d.marker)]

\* the formats tested in the opposite order
BootLayoutFlatFirst(d) ==
  IF d.flat # NoFile THEN "flat"
  ELSE IF d.clawdbot # NoDir /\ d.clawdbot.legacy # NoFile THEN "structured"
  ELSE IF d.openclaw # NoDir /\ d.openclaw.cfg # NoFile THEN "current"
  ELSE "none"

\* the layout the restore section finds on the volume
BootLayout(d) ==
  IF d.openclaw # NoDir /\ d.openclaw.cfg # NoFile THEN "current"
  ELSE IF d.clawdbot # NoDir /\ d.clawdbot.legacy # NoFile THEN "structured"
  ELSE IF d.flat # NoFile THEN "flat"
  ELSE "none"

\* the flat volume as cp -a "$BACKUP_DIR/." sees it
FlatView(d) == StateDir(NoFile, d.flat, d.marker, ImageSkills)

BootRestoreConfig(l, d, today) ==
  IF BootLayout(d) = "none" \/ ~should_restore_from_r2(d, l, today) THEN l
  ELSE IF BootLayout(d) = "current" THEN CopyMarker(CopyAll(l, d.openclaw), d)
  ELSE IF BootLayout(d) = "structured"
  THEN CopyMarker(RenameLegacy(CopyAll(l, d.clawdbot)), d)
  ELSE CopyMarker(RenameLegacy(CopyAll(l, FlatView(d))), d)

SkillsNonEmpty(sk) ==
  sk # NoDir /\ (sk.identity.size >= 0 \/ sk.files # NoFile \/ sk.locks # NoFile)

BootRestoreSkills(l, d, today) ==
  IF SkillsNonEmpty(d.skills) /\ should_restore_from_r2(d, l, today)
  THEN [l EXCEPT !.skills = MergeSkills(l.skills, d.skills)]
  ELSE l

TemplateVer == 1
BootInitConfig(l) == IF l.cfg = NoFile THEN [l EXCEPT !.cfg = TemplateVer] ELSE l

\* the script from its first line to the line that execs the gateway; with
\* the volume not mounted $BACKUP_DIR does not exist
StartupRestore(l, d, mounted, today) ==
  IF mounted
  THEN BootInitConfig(BootRestoreSkills(BootRestoreConfig(l, d, today), d, today))
  ELSE BootInitConfig(l)

\* what a run of the script did: the state directory it found, whether the
\* volume was mounted, and whether the configuration was restored
BootResult(l, d, mounted, today) ==
  [op |-> "boot", success |-> TRUE, fresh |-> (l = FreshLocal), mounted |-> mounted,
   restored |-> (mounted /\ BootLayout(d) # "none" /\ should_restore_from_r2(d, l, today)),
   before |-> l, today |-> today]

Boot(mounted, today) ==
  /\ gw = "stopped"
  /\ op.pc = "idle"
  /\ local' = StartupRestore(local, r2, mounted, today)
  /\ gw' = "ready"
  /\ res' = BootResult(local, r2, mounted, today)
  /\ op' = [Idle EXCEPT !.name = "boot", !.pc = "done"]
  /\ cmds' = <<>>
  /\ snap' = r2
  /\ UNCHANGED <<r2, clock, mirror, synced, procs, callers, stages>>

\* the startup script is launched again in the same container, right after
\* a run of it: the gateway it started has ended or was killed
ScriptAgain ==
  /\ gw \in {"ready", "running"}
  /\ res.op = "boot" /\ op.name = "boot" /\ op.pc = "done"
  /\ gw' = "stopped"
  /\ op' = [Idle EXCEPT !.name = "again"]
  /\ UNCHANGED <<local, r2, clock, mirror, res, cmds, snap, synced, procs, callers, stages>>

\* exec openclaw gateway
GatewayStart ==
  /\ gw = "ready"
  /\ op.pc # "done"
  /\ gw' = "running"
  /\ UNCHANGED <<local, r2, clock, op, mirror, res, cmds, snap, synced, procs, callers, stages>>

\* the gateway rewrites its configuration and skill files
GatewayWrites ==
  /\ gw = "running"
  /\ op.pc # "done"
  /\ local.cfg < MaxVer
  /\ local' = [local EXCEPT !.cfg = local.cfg + 1, !.skills.files = local.cfg + 1]
  /\ UNCHANGED <<r2, clock, gw, op, mirror, res, cmds, snap, synced, procs, callers, stages>>

IdentityDocs == {Doc(50, TRUE), Doc(150, TRUE)}

\* the gateway writes the identity document
GatewayWritesIdentity(d) ==
  /\ gw = "running"
  /\ op.pc # "done"
  /\ local.skills.identity.size < d.size
  /\ local' = [local EXCEPT !.skills.identity = d]
  /\ UNCHANGED <<r2, clock, gw, op, mirror, res, cmds, snap, synced, procs, callers, stages>>

\* a skill leaves a file matching *.lock in workspace/skills
GatewayWritesLock ==
  /\ gw = "running"
  /\ op.pc # "done"
  /\ local.skills.locks = NoFile
  /\ local.cfg # NoFile
  /\ local' = [local EXCEPT !.skills.locks = local.cfg]
  /\ UNCHANGED <<r2, clock, gw, op, mirror, res, cmds, snap, synced, procs, callers, stages>>

\* the container is recycled: the state directory is the image's again and
\* every process of the container is gone
Recycle ==
  /\ op.pc = "idle"
  /\ local # FreshLocal \/ gw # "stopped"
  /\ local' = FreshLocal
  /\ gw' = "stopped"
  /\ mirror' = NoMirror
  /\ UNCHANGED <<r2, clock, op, res, cmds, snap, synced, procs, callers, stages>>

\* the response of the operation has been delivered to its caller, and the
\* handle of a sync command that has ended is dropped
Return ==
  /\ op.pc = "done"
  /\ op' = Idle
  /\ res' = NoResult
  /\ cmds' = <<>>
  /\ snap' = r2
  /\ mirror' = IF MirrorRunning THEN mirror ELSE NoMirror
  /\ UNCHANGED <<local, r2, clock, gw, synced, procs, callers, stages>>

\* ------------------------------------------------------------------- Init
PriorVer == MaxVer + 1
PriorSkills == SkillsDir(Doc(150, TRUE), PriorVer, NoFile)

\* volumes left by earlier containers: nothing, the legacy structured
\* layout, the legacy flat layout
InitVolumes ==
  { EmptyVolume,
    Volume(NoDir, StateDir(NoFile, PriorVer, NoFile, ImageSkills), NoFile, PriorSkills, 1, {}, {}),
    Volume(NoDir, NoDir, PriorVer, NoDir, Garbage, {}, {}) }

Init ==
  /\ local = FreshLocal
  /\ r2 \in InitVolumes
  /\ clock = 1
  /\ gw = "stopped"
  /\ op = Idle
  /\ mirror = NoMirror
  /\ res = NoResult
  /\ cmds = <<>>
  /\ snap \in {r2}
  /\ synced = 0
  /\ procs = <<>>
  /\ callers = NoCallers
  /\ stages = <<>>

\* names a caller may pass to restoreFromBackup: those on the volume, one
\* that is not, and two path traversals
NameInputs(d) ==
  Names(d.backups) \cup Names(d.golden)
    \cup {<<".", ".", "/", "e", "t", "c">>, <<".", ".">>}

\* The life of a container: boot, the gateway writing its files, syncs with
\* every way their commands can end, recycling.
Next ==
  \/ /\ clock < MaxClock
     /\ \E c \in Calls, g \in GateOutcomes :
          g \in GatesOf(c) /\ SyncBegin(c[1], c[2], g[1], g[2])
  \/ \E o \in Outcomes \cup {"late"} : SyncBackup(o)
  \/ \E o \in Outcomes : SyncPrune(o)
  \/ \E started \in BOOLEAN : SyncMirrorStart(started)
  \/ \E ok \in BOOLEAN : MirrorStep(ok)
  \/ \E o \in Outcomes : SyncVerify(o)
  \/ \E m \in BOOLEAN, today \in 1..clock : Boot(m, today)
  \/ GatewayStart
  \/ GatewayWrites
  \/ \E d \in IdentityDocs : GatewayWritesIdentity(d)
  \/ GatewayWritesLock
  \/ Recycle
  \/ Return

Spec == Init /\ [][Next]_vars

\* ------------------------------------------------------------ SpecRotate
\* Successive syncs from a container whose gateway runs on a healthy state
\* directory, with every way the backup, cleanup and sync commands can end.
RunningLocal == StateDir(TemplateVer, NoFile, NoFile, SkillsDir(Doc(150, TRUE), TemplateVer, NoFile))

\* volumes with something on them: the flat one has nothing a versioned
\* backup would copy
RotateVolumes == InitVolumes \ {EmptyVolume}

InitRotate ==
  /\ local = RunningLocal
  /\ r2 \in RotateVolumes
  /\ clock = 1
  /\ gw = "running"
  /\ op = Idle
  /\ mirror = NoMirror
  /\ res = NoResult
  /\ cmds = <<>>
  /\ snap \in {r2}
  /\ synced = 0
  /\ procs = <<>>
  /\ callers = NoCallers
  /\ stages = <<>>

NextRotate ==
  \/ /\ clock < MaxRotate
     /\ SyncBegin(AllCreds, TRUE, "ok", "ok")
  \/ \E o \in Outcomes \cup {"late"} : SyncBackup(o)
  \/ \E o \in Outcomes : SyncPrune(o)
  \/ \E started \in BOOLEAN : SyncMirrorStart(started)
  \/ \E ok \in BOOLEAN : MirrorStep(ok)
  \/ \E o \in Outcomes : SyncVerify(o)
  \/ Return

SpecRotate == InitRotate /\ [][NextRotate]_vars

\* ------------------------------------------------------------- SpecAdmin
\* The public operations of the engine, called in any order on a fresh or a
\* running container and a volume that earlier containers have filled.
PriorState == StateDir(PriorVer, NoFile, NoFile, PriorSkills)
PriorBackup(t) == BackupDir(TimestampName(t), t, PriorState, NoDir, NoDir, PriorSkills, 1)
PriorGolden(t) == NewGolden(PriorState, t)

\* the clock of SpecAdmin starts after the timestamps of the prior backups
AdminStart == MAX_VERSIONED_BACKUPS + 1

AdminVolumes ==
  { EmptyVolume,
    Volume(PriorState, NoDir, NoFile, PriorSkills, 1,
           {PriorBackup(t) : t \in 1..MAX_VERSIONED_BACKUPS}, {PriorGolden(1)}),
    Volume(NoDir, StateDir(NoFile, PriorVer, NoFile, ImageSkills), NoFile, PriorSkills, 1,
           {BackupDir(TimestampName(1), 1, NoDir, StateDir(NoFile, PriorVer, NoFile, ImageSkills),
                      NoDir, PriorSkills, 1)}, {}) }

InitAdmin ==
  /\ local \in {FreshLocal, RunningLocal}
  /\ r2 \in AdminVolumes
  /\ clock = AdminStart
  /\ gw = IF local = FreshLocal THEN "stopped" ELSE "running"
  /\ op = Idle
  /\ mirror = NoMirror
  /\ res = NoResult
  /\ cmds = <<>>
  /\ snap \in {r2}
  /\ synced = 0
  /\ procs = <<>>
  /\ callers = NoCallers
  /\ stages = <<>>

NextAdmin ==
  \/ /\ clock < AdminStart + MaxAdmin
     /\ \E c \in Calls, g \in GateOutcomes :
          g \in GatesOf(c) /\ SyncBegin(c[1], c[2], g[1], g[2])
  \/ \E o \in Outcomes \cup {"late"} : SyncBackup(o)
  \/ \E o \in Outcomes : SyncPrune(o)
  \/ \E started \in BOOLEAN : SyncMirrorStart(started)
  \/ \E ok \in BOOLEAN : MirrorStep(ok)
  \/ \E o \in Outcomes : SyncVerify(o)
  \/ /\ clock < AdminStart + MaxAdmin
     /\ \E c \in Calls, g \in GateOutcomes, o \in Outcomes \cup {"late"} :
          /\ g \in GatesOf(c)
          /\ (Works(c) /\ isSourceHealthy(local, g[1], g[2]).healthy) \/ o = "ok"
          /\ GoldenBackup(c[1], c[2], g[1], g[2], o)
  \/ \E c \in Calls, o \in Outcomes : (Works(c) \/ o = "ok") /\ ListBackups(c[1], c[2], o)
  \/ /\ CanStart
     /\ \E c \in Calls, kind \in {"versioned", "golden"}, n \in NameInputs(r2),
           o \in RestoreOutcomes :
          /\ Works(c) \/ (kind = "golden" /\ n = <<".", ".">> /\ o = <<"ok", "ok">>)
          /\ RestoreFromBackup(c[1], c[2], kind, n, o[1], o[2])
  \/ \E m \in BOOLEAN, today \in 1..clock : Boot(m, today)
  \/ GatewayStart
  \/ Return

SpecAdmin == InitAdmin /\ [][NextAdmin]_vars

\* -------------------------------------------------------------- SpecBoot
\* The startup script on its own: every state directory and volume it can
\* find, with markers that are absent, well formed, malformed or empty.
BootMarkers == {NoFile, Garbage, DateLikeGarbage, EmptyMarker} \cup (1..MaxStamp)

CurrentVer == PriorVer
StructVer == PriorVer + 1
FlatVer == PriorVer + 2
SkillsVer == PriorVer + 3

CurDir == StateDir(CurrentVer, NoFile, NoFile, SkillsDir(Doc(150, TRUE), CurrentVer, NoFile))
StructDir == StateDir(NoFile, StructVer, NoFile, ImageSkills)
VolumeSkills == SkillsDir(Doc(150, TRUE), SkillsVer, NoFile)

BootLocals ==
  {[l EXCEPT !.marker = m] :
     l \in {FreshLocal, RunningLocal, StateDir(NoFile, TemplateVer, NoFile, ImageSkills)},
     m \in BootMarkers}

BootVolumes ==
  {Volume(oc, cb, fl, sk, m, {}, {}) :
     oc \in {NoDir, CurDir}, cb \in {NoDir, StructDir}, fl \in {NoFile, FlatVer},
     sk \in {NoDir, ImageSkills, VolumeSkills}, m \in BootMarkers}

InitBoot ==
  /\ local \in BootLocals
  /\ r2 \in BootVolumes
  /\ clock = MaxStamp + 1
  /\ gw = "stopped"
  /\ op = Idle
  /\ mirror = NoMirror
  /\ res = NoResult
  /\ cmds = <<>>
  /\ snap \in {r2}
  /\ synced = 0
  /\ procs = <<>>
  /\ callers = NoCallers
  /\ stages = <<>>

NextBoot ==
  \/ \E m \in BOOLEAN, today \in 1..clock : Boot(m, today)
  \/ GatewayStart
  \/ Return

SpecBoot == InitBoot /\ [][NextBoot]_vars

\* ----------------------------------------------------------- SpecRestore
\* restoreFromBackup on its own: one backup directory of every layout mix,
\* in either namespace, and names that do and do not survive the sanitizing.
FlatDirs ==
  {NoDir, StateDir(FlatVer, NoFile, NoFile, ImageSkills),
   StateDir(NoFile, FlatVer, NoFile, ImageSkills),
   StateDir(FlatVer, StructVer, NoFile, ImageSkills)}

LayoutBackups ==
  {BackupDir(TimestampName(1), 1, oc, cb, fl, sk, 1) :
     oc \in {NoDir, CurDir}, cb \in {NoDir, StructDir}, fl \in FlatDirs,
     sk \in {NoDir, VolumeSkills}}

RestoreVolumes ==
  {EmptyVolume}
    \cup {Volume(NoDir, NoDir, NoFile, NoDir, NoFile, {b}, {}) : b \in LayoutBackups}
    \cup {Volume(NoDir, NoDir, NoFile, NoDir, NoFile, {}, {b}) : b \in LayoutBackups}

RestoreLocals ==
  {FreshLocal, RunningLocal, StateDir(NoFile, TemplateVer, NoFile, ImageSkills)}

RestoreNames ==
  {TimestampName(1), <<>>, <<".", ".", "/", ".", ".", "/", "e", "t", "c">>,
   <<".", ".", "/">> \o TimestampName(1)}

InitRestore ==
  /\ local \in RestoreLocals
  /\ r2 \in RestoreVolumes
  /\ clock = 2
  /\ gw = "running"
  /\ op = Idle
  /\ mirror = NoMirror
  /\ res = NoResult
  /\ cmds = <<>>
  /\ snap \in {r2}
  /\ synced = 0
  /\ procs = <<>>
  /\ callers = NoCallers
  /\ stages = <<>>

NextRestore ==
  \/ \E c \in Calls, kind \in {"versioned", "golden"}, n \in RestoreNames,
        o \in RestoreOutcomes :
       /\ Works(c) \/ o = <<"ok", "ok">>
       /\ RestoreFromBackup(c[1], c[2], kind, n, o[1], o[2])
  \/ Return

SpecRestore == InitRestore /\ [][NextRestore]_vars

\* ------------------------------------------------------- process listing
\* a process as sandbox.listProcesses() reports it; a command is the
\* sequence of its words
Proc(id, command, status) == [id |-> id, command |-> command, status |-> status]
NoProc == Proc(0, <<>>, "none")

GatewayCommands ==
  {<<"clawdbot", "gateway">>, <<"clawdbot", "gateway", "--port", "18789">>,
   <<"/usr/local/bin/", "start-clawdbot.sh">>, <<"start-clawdbot.sh">>}
CliCommands ==
  {<<"clawdbot", "devices", "list", "--json">>, <<"clawdbot", "--version">>}

\* command.includes(words)
CommandIncludes(command, words) ==
  \E i \in 0..(Len(command) - Len(words)) :
     SubSeq(command, i + 1, i + Len(words)) = words

\* the gateway's invocation signatures
isGatewayProcess(command) ==
  \/ CommandIncludes(command, <<"clawdbot", "gateway">>)
  \/ CommandIncludes(command, <<"start-clawdbot.sh">>)

\* a terminal status counted as live
IsLiveOrDone(status) == status \in {"starting", "running", "completed", "failed"}

IsLive(status) == status \in {"starting", "running"}

\* the last match instead of the first
RECURSIVE LastMatch(_)
LastMatch(ps) ==
  IF ps = <<>> THEN NoProc
  ELSE IF isGatewayProcess(ps[Len(ps)].command) /\ IsLive(ps[Len(ps)].status)
  THEN ps[Len(ps)]
  ELSE LastMatch(SubSeq(ps, 1, Len(ps) - 1))

\* the loop over the listing
RECURSIVE FirstMatch(_)
FirstMatch(ps) ==
  IF ps = <<>> THEN NoProc
  ELSE IF isGatewayProcess(Head(ps).command) /\ IsLive(Head(ps).status) THEN Head(ps)
  ELSE FirstMatch(Tail(ps))

FindResult(p, listed, threw) ==
  [op |-> "find", proc |-> p, listed |-> listed, threw |-> threw]

\* the listing's failure passed on to the caller
findExistingPropagates(ps, o) ==
  IF o = "throw" THEN FindResult(NoProc, FALSE, TRUE)
  ELSE FindResult(FirstMatch(ps), TRUE, FALSE)

\* findExisting, o being how listProcesses ended
findExisting(ps, o) ==
  IF o = "throw" THEN FindResult(NoProc, FALSE, FALSE)
  ELSE FindResult(FirstMatch(ps), TRUE, FALSE)

FindExisting(o) ==
  /\ op.pc = "idle"
  /\ res' = findExisting(procs, o)
  /\ op' = [Idle EXCEPT !.name = "find", !.pc = "done"]
  /\ UNCHANGED <<local, r2, clock, gw, mirror, cmds, snap, synced, procs, callers, stages>>

\* sandbox.startProcess(command): the new process is listed last
StartProcess(command) ==
  /\ op.pc = "idle"
  /\ Len(procs) < MaxProcs
  /\ procs' = Append(procs, Proc(Len(procs) + 1, command, "starting"))
  /\ UNCHANGED <<local, r2, clock, gw, op, mirror, res, cmds, snap, synced, callers, stages>>

\* a listed process comes up, exits or fails
ProcessStep(i, status) ==
  /\ op.pc = "idle"
  /\ \/ procs[i].status = "starting" /\ status \in {"running", "failed"}
     \/ procs[i].status = "running" /\ status \in {"completed", "failed"}
  /\ procs' = [procs EXCEPT ![i].status = status]
  /\ UNCHANGED <<local, r2, clock, gw, op, mirror, res, cmds, snap, synced, callers, stages>>

\* --------------------------------------------------------------- SpecFind
\* findExisting against every listing of up to MaxProcs processes.
InitFind ==
  /\ local = RunningLocal
  /\ r2 = EmptyVolume
  /\ clock = 1
  /\ gw = "running"
  /\ op = Idle
  /\ mirror = NoMirror
  /\ res = NoResult
  /\ cmds = <<>>
  /\ snap = r2
  /\ synced = 0
  /\ procs = <<>>
  /\ callers = NoCallers
  /\ stages = <<>>

NextFind ==
  \/ \E c \in GatewayCommands \cup CliCommands : StartProcess(c)
  \/ \E i \in 1..Len(procs), st \in {"running", "completed", "failed"} : ProcessStep(i, st)
  \/ \E o \in {"ok", "throw"} : FindExisting(o)
  \/ Return

SpecFind == InitFind /\ [][NextFind]_vars

\* --------------------------------------------------------------- SpecSync
\* syncToR2 alone, from a fresh or a running container onto an empty or a
\* filled volume, with every way its checks and its commands can end.
\* a volume whose state directories are gone and whose backups are still
\* there, one more of them than the cleanup command keeps
ClearedVolume ==
  Volume(NoDir, NoDir, NoFile, PriorSkills, 1,
         {PriorBackup(t) : t \in 1..(MAX_VERSIONED_BACKUPS + 1)}, {})

InitSync ==
  /\ local \in {FreshLocal, RunningLocal}
  /\ r2 \in AdminVolumes \cup {ClearedVolume}
  /\ clock = AdminStart
  /\ gw = IF local = FreshLocal THEN "stopped" ELSE "running"
  /\ op = Idle
  /\ mirror = NoMirror
  /\ res = NoResult
  /\ cmds = <<>>
  /\ snap \in {r2}
  /\ synced = 0
  /\ procs = <<>>
  /\ callers = NoCallers
  /\ stages = <<>>

NextSync ==
  \/ /\ clock < AdminStart + MaxAdmin
     /\ \E c \in Calls, g \in GateOutcomes :
          g \in GatesOf(c) /\ SyncBegin(c[1], c[2], g[1], g[2])
  \/ \E o \in Outcomes \cup {"late"} : SyncBackup(o)
  \/ \E o \in Outcomes : SyncPrune(o)
  \/ \E started \in BOOLEAN : SyncMirrorStart(started)
  \/ \E ok \in BOOLEAN : MirrorStep(ok)
  \/ \E o \in Outcomes : SyncVerify(o)
  \/ Return

SpecSync == InitSync /\ [][NextSync]_vars

\* ------------------------------------------------------------ SpecOverrun
\* syncToR2 as in SpecSync, with a backup command that may outlast the wait
\* for it.
NextOverrun ==
  \/ NextSync
  \/ SyncBackupOverrun
  \/ BackupCopyEnds

SpecOverrun == InitSync /\ [][NextOverrun]_vars

\* ------------------------------------------------------------- SpecGolden
\* createGoldenBackup called again and again from a fresh or a running
\* container, with every way its checks and its command can end.
NextGolden ==
  \/ /\ clock <= AdminStart + MaxAdmin
     /\ \E c \in Calls, g \in GateOutcomes, o \in Outcomes \cup {"late"} :
          /\ g \in GatesOf(c)
          /\ (Works(c) /\ isSourceHealthy(local, g[1], g[2]).healthy) \/ o = "ok"
          /\ GoldenBackup(c[1], c[2], g[1], g[2], o)
  \/ Return

SpecGolden == InitSync /\ [][NextGolden]_vars

\* ------------------------------------------------------------- SpecReboot
\* The startup script run, and run again, in one container against one
\* volume.
NextReboot ==
  \/ \E m \in BOOLEAN, today \in 1..clock : Boot(m, today)
  \/ GatewayStart
  \/ ScriptAgain
  \/ Return

SpecReboot == InitBoot /\ [][NextReboot]_vars

\* ---------------------------------------------------------- volume mounter
\* every way the bindings can be set
Envs == {Env(k, x, a, ak, as) : k \in BOOLEAN, x \in BOOLEAN, a \in BOOLEAN,
                                ak \in BOOLEAN, as \in BOOLEAN}

\* the credentials mountR2Storage asks for before it calls mountBucket
MountCreds(env) == env.AWS_ACCESS_KEY_ID /\ env.AWS_SECRET_ACCESS_KEY /\ env.CF_ACCOUNT_ID

\* what a call of mountR2Storage has come to: bucket is how mountBucket
\* ended ("none" when it was not called or has not ended)
MountResult(env, done, mounted, bucket) ==
  [op |-> "mount", env |-> env, done |-> done, mounted |-> mounted, bucket |-> bucket,
   threw |-> FALSE]

\* mountR2Storage up to its return without credentials or its call of
\* sandbox.mountBucket
MountBegin(env) ==
  /\ op.pc = "idle"
  /\ clock <= MaxClock
  /\ clock' = clock + 1
  /\ IF MountCreds(env)
     THEN /\ op' = [Idle EXCEPT !.name = "mount", !.pc = "mounting"]
          /\ cmds' = <<"mountBucket">>
          /\ res' = MountResult(env, FALSE, FALSE, "none")
     ELSE /\ op' = [Idle EXCEPT !.name = "mount", !.pc = "done"]
          /\ cmds' = <<>>
          /\ res' = MountResult(env, TRUE, mountR2Storage(env, TRUE), "none")
  /\ snap' = r2
  /\ UNCHANGED <<local, r2, gw, mirror, synced, procs, callers, stages>>

\* sandbox.mountBucket resolves or throws
MountEnd(bucketOk) ==
  /\ op.name = "mount" /\ op.pc = "mounting"
  /\ op' = [op EXCEPT !.pc = "done"]
  /\ res' = MountResult(res.env, TRUE, mountR2Storage(res.env, bucketOk),
                        IF bucketOk THEN "ok" ELSE "throw")
  /\ UNCHANGED <<local, r2, clock, gw, mirror, cmds, snap, synced, procs, callers, stages>>

\* -------------------------------------------------------------- SpecMount
\* mountR2Storage called operation after operation, under every setting of
\* the bindings.
InitMount ==
  /\ local = RunningLocal
  /\ r2 = EmptyVolume
  /\ clock = 0
  /\ gw = "running"
  /\ op = Idle
  /\ mirror = NoMirror
  /\ res = NoResult
  /\ cmds = <<>>
  /\ snap = r2
  /\ synced = 0
  /\ procs = <<>>
  /\ callers = NoCallers
  /\ stages = <<>>

NextMount ==
  \/ \E env \in Envs : MountBegin(env)
  \/ \E bucketOk \in BOOLEAN : MountEnd(bucketOk)
  \/ Return

SpecMount == InitMount /\ [][NextMount]_vars

\* ------------------------------------------------------ process supervisor
\* the command ensureRunning launches
ScriptCommand == <<"/usr/local/bin/", "start-clawdbot.sh">>

\* a request calls ensureRunning
CallEnsure(c) ==
  /\ callers[c].pc = "idle"
  /\ callers' = [callers EXCEPT ![c] = [NoCall EXCEPT !.kind = "ensure", !.pc = "find"]]
  /\ UNCHANGED <<local, r2, clock, gw, op, mirror, res, cmds, snap, synced, procs, stages>>

\* launching although a process was found
EnsureAlwaysLaunch(r) == "launch"

\* ensureRunning after findExisting: a process found ends the call
EnsureAfterFind(r) == IF r.proc # NoProc THEN "done" ELSE "launch"

EnsureFind(c, o) ==
  LET r == findExisting(procs, o) IN
  /\ callers[c].kind = "ensure" /\ callers[c].pc = "find"
  /\ callers' = [callers EXCEPT ![c] =
       [NoCall EXCEPT !.kind = "ensure", !.pc = EnsureAfterFind(r),
                      !.outcome = IF EnsureAfterFind(r) = "done" THEN "found"
                                  ELSE IF r.listed THEN "none" ELSE "unlisted",
                      !.route = callers[c].route, !.token = callers[c].token,
                      !.gate = callers[c].gate, !.resp = callers[c].resp]]
  /\ UNCHANGED <<local, r2, clock, gw, op, mirror, res, cmds, snap, synced, procs, stages>>

\* sandbox.startProcess of the startup script, ok unless it throws
EnsureLaunch(c, ok) ==
  /\ callers[c].kind = "ensure" /\ callers[c].pc = "launch"
  /\ Len(procs) < MaxProcs
  /\ IF ok
     THEN /\ procs' = Append(procs, Proc(Len(procs) + 1, ScriptCommand, "starting"))
          /\ stages' = Append(stages, "guard")
          /\ callers' = [callers EXCEPT ![c].pc = "wait", ![c].outcome = "none"]
     ELSE /\ callers' = [callers EXCEPT ![c].pc = "done", ![c].outcome = "failed"]
          /\ UNCHANGED <<procs, stages>>
  /\ UNCHANGED <<local, r2, clock, gw, op, mirror, res, cmds, snap, synced>>

\* the wait for the gateway's port: it opens, or the timeout passes
EnsureWait(c, o) ==
  /\ callers[c].kind = "ensure" /\ callers[c].pc = "wait"
  /\ o = "up" => \E i \in 1..Len(stages) : stages[i] = "gateway"
  /\ callers' = [callers EXCEPT ![c].pc = "done", ![c].outcome = o]
  /\ UNCHANGED <<local, r2, clock, gw, op, mirror, res, cmds, snap, synced, procs, stages>>

\* a guard that never matches
GuardNeverMatches(st) == FALSE

\* pgrep -f "openclaw gateway": a gateway that has been exec'ed
GatewayRunning(st) == \E j \in 1..Len(st) : st[j] = "gateway"

\* the startup script's first lines: exit 0 when a gateway is running
ScriptGuard(i) ==
  /\ stages[i] = "guard"
  /\ IF GatewayRunning(stages)
     THEN /\ stages' = [stages EXCEPT ![i] = "exited"]
          /\ procs' = [procs EXCEPT ![i].status = "completed"]
     ELSE /\ stages' = [stages EXCEPT ![i] = "setup"]
          /\ procs' = [procs EXCEPT ![i].status = "running"]
  /\ UNCHANGED <<local, r2, clock, gw, op, mirror, res, cmds, snap, synced, callers>>

\* exec openclaw gateway
ScriptExec(i) ==
  /\ stages[i] = "setup"
  /\ stages' = [stages EXCEPT ![i] = "gateway"]
  /\ UNCHANGED <<local, r2, clock, gw, op, mirror, res, cmds, snap, synced, procs, callers>>

\* a startup process or gateway ends by itself
ProcExit(i) ==
  /\ stages[i] \in {"setup", "gateway"}
  /\ stages' = [stages EXCEPT ![i] = "exited"]
  /\ procs' = [procs EXCEPT ![i].status = "failed"]
  /\ UNCHANGED <<local, r2, clock, gw, op, mirror, res, cmds, snap, synced, callers>>

\* POST /api/gateway/restart arrives
CallRestart(c) ==
  /\ callers[c].pc = "idle"
  /\ callers' = [callers EXCEPT ![c] = [NoCall EXCEPT !.kind = "restart", !.pc = "find"]]
  /\ UNCHANGED <<local, r2, clock, gw, op, mirror, res, cmds, snap, synced, procs, stages>>

\* const existingProcess = await findExistingClawdbotProcess(sandbox)
RestartFind(c, o) ==
  LET r == findExisting(procs, o) IN
  /\ callers[c].kind = "restart" /\ callers[c].pc = "find"
  /\ callers' = [callers EXCEPT ![c].pc = IF r.proc # NoProc THEN "kill" ELSE "fire",
                                ![c].found = r.proc.id, ![c].trace = <<"find">>]
  /\ UNCHANGED <<local, r2, clock, gw, op, mirror, res, cmds, snap, synced, procs, stages>>

\* await existingProcess.kill(): the process ends, or kill throws and is
\* logged, or kill returns with the process still there
RestartKill(c, o) ==
  LET i == callers[c].found IN
  /\ callers[c].kind = "restart" /\ callers[c].pc = "kill"
  /\ IF o = "ok" /\ stages[i] # "exited"
     THEN /\ stages' = [stages EXCEPT ![i] = "exited"]
          /\ procs' = [procs EXCEPT ![i].status = "killed"]
     ELSE UNCHANGED <<procs, stages>>
  /\ callers' = [callers EXCEPT ![c].pc = "grace",
                                ![c].trace = Append(@, IF o = "throw" THEN "kill threw" ELSE "kill")]
  /\ UNCHANGED <<local, r2, clock, gw, op, mirror, res, cmds, snap, synced>>

\* await new Promise(r => setTimeout(r, 2000))
RestartGrace(c) ==
  /\ callers[c].kind = "restart" /\ callers[c].pc = "grace"
  /\ callers' = [callers EXCEPT ![c].pc = "fire", ![c].trace = Append(@, "grace")]
  /\ UNCHANGED <<local, r2, clock, gw, op, mirror, res, cmds, snap, synced, procs, stages>>

\* the relaunch awaited before the response
RestartFireAwaited(old) ==
  [old EXCEPT !.kind = "ensure", !.pc = "done", !.outcome = "up",
              !.trace = Append(@, "fire"),
              !.resp = [sent |-> TRUE, killedPrevious |-> old.found # 0,
                        previousProcessId |-> old.found]]

\* ensureClawdbotGateway(...) begun and handed to waitUntil, then the
\* response: the request goes on as the relaunch, at its first await
RestartFire(old) ==
  [old EXCEPT !.kind = "ensure", !.pc = "find",
              !.trace = Append(@, "fire"),
              !.resp = [sent |-> TRUE, killedPrevious |-> old.found # 0,
                        previousProcessId |-> old.found]]

RestartRespond(c) ==
  /\ callers[c].kind = "restart" /\ callers[c].pc = "fire"
  /\ callers' = [callers EXCEPT ![c] = RestartFire(callers[c])]
  /\ UNCHANGED <<local, r2, clock, gw, op, mirror, res, cmds, snap, synced, procs, stages>>

\* a call begins when no other is in flight
InSequence(c) == \A d \in Callers \ {c} : callers[d].pc \in {"idle", "done"}

\* ------------------------------------------------------------ the worker
\* the paths of the worker's routes: the health check, two routes of the
\* api, the admin UI, the debug routes, and any other path
Routes == {"/sandbox-health", "/api/devices", "/api/gateway/restart", "/_admin/",
           "/debug/", "/"}

\* the routes mounted behind createAccessMiddleware
Guarded(route) == route \in {"/api/devices", "/api/gateway/restart", "/_admin/", "/debug/"}

\* a request arrives, with or without a token the gate accepts
Request(c, route, token) ==
  /\ callers[c].pc = "idle"
  /\ callers' = [callers EXCEPT ![c] =
       [NoCall EXCEPT !.kind = "request", !.route = route, !.token = token,
                      !.pc = IF Guarded(route) THEN "gate" ELSE "handler"]]
  /\ UNCHANGED <<local, r2, clock, gw, op, mirror, res, cmds, snap, synced, procs, stages>>

\* the bearer-token verification gate: the handler runs only for a token
\* that verifies
AccessGate(c) ==
  /\ callers[c].kind = "request" /\ callers[c].pc = "gate"
  /\ callers' = [callers EXCEPT ![c] =
       IF callers[c].token
       THEN [@ EXCEPT !.gate = "passed", !.pc = "handler"]
       ELSE [@ EXCEPT !.gate = "denied", !.pc = "done", !.outcome = "denied"]]
  /\ UNCHANGED <<local, r2, clock, gw, op, mirror, res, cmds, snap, synced, procs, stages>>

\* the operation of the core a route's handler begins with
RouteCall(route) ==
  IF route = "/api/gateway/restart" THEN "restart"
  ELSE IF route \in {"/api/devices", "/"} THEN "ensure"
  ELSE "none"

RouteHandler(c) ==
  /\ callers[c].kind = "request" /\ callers[c].pc = "handler"
  /\ callers' = [callers EXCEPT ![c] =
       IF RouteCall(callers[c].route) = "none"
       THEN [@ EXCEPT !.pc = "done", !.outcome = "served"]
       ELSE [@ EXCEPT !.kind = RouteCall(callers[c].route), !.pc = "find"]]
  /\ UNCHANGED <<local, r2, clock, gw, op, mirror, res, cmds, snap, synced, procs, stages>>

\* ---------------------------------------------------------- SpecSupervise
\* Requests in flight together: ensureRunning and restart calls interleaved
\* with the startup processes they launch.
InitSupervise ==
  /\ local = RunningLocal
  /\ r2 = EmptyVolume
  /\ clock = 1
  /\ gw = "stopped"
  /\ op = Idle
  /\ mirror = NoMirror
  /\ res = NoResult
  /\ cmds = <<>>
  /\ snap = r2
  /\ synced = 0
  /\ procs = <<>>
  /\ stages = <<>>
  /\ callers = NoCallers

ProcessSteps ==
  \/ \E i \in 1..Len(stages) : ScriptGuard(i)
  \/ \E i \in 1..Len(stages) : ScriptExec(i)
  \/ \E i \in 1..Len(stages) : ProcExit(i)

EnsureSteps(c) ==
  \/ CallEnsure(c)
  \/ \E o \in {"ok", "throw"} : EnsureFind(c, o)
  \/ \E ok \in BOOLEAN : EnsureLaunch(c, ok)
  \/ \E o \in {"up", "timeout"} : EnsureWait(c, o)

RestartSteps(c) ==
  \/ CallRestart(c)
  \/ \E o \in {"ok", "throw"} : RestartFind(c, o)
  \/ \E o \in {"ok", "throw", "slow"} : RestartKill(c, o)
  \/ RestartGrace(c)
  \/ RestartRespond(c)

NextSupervise ==
  \/ \E c \in Callers : EnsureSteps(c)
  \/ \E c \in Callers : RestartSteps(c)
  \/ ProcessSteps

SpecSupervise == InitSupervise /\ [][NextSupervise]_vars

\* ensureRunning calls one after the other, no restart
NextSeq ==
  \/ \E c \in Callers : InSequence(c) /\ EnsureSteps(c)
  \/ ProcessSteps

SpecSeq == InitSupervise /\ [][NextSeq]_vars

\* -------------------------------------------------------------- SpecRoute
\* Requests to the worker, one at a time, each routed to its handler and on
\* into the supervisor.
NextRoute ==
  \/ \E c \in Callers, route \in Routes, token \in BOOLEAN :
       InSequence(c) /\ Request(c, route, token)
  \/ \E c \in Callers : AccessGate(c)
  \/ \E c \in Callers : RouteHandler(c)
  \/ \E c \in Callers, o \in {"ok", "throw"} : EnsureFind(c, o)
  \/ \E c \in Callers, ok \in BOOLEAN : EnsureLaunch(c, ok)
  \/ \E c \in Callers, o \in {"up", "timeout"} : EnsureWait(c, o)
  \/ \E c \in Callers, o \in {"ok", "throw"} : RestartFind(c, o)
  \/ \E c \in Callers, o \in {"ok", "throw", "slow"} : RestartKill(c, o)
  \/ \E c \in Callers : RestartGrace(c)
  \/ \E c \in Callers : RestartRespond(c)
  \/ ProcessSteps

SpecRoute == InitSupervise /\ [][NextRoute]_vars

\* ----------------------------------------------------------- SpecRelaunch
\* One restart and what follows it with no further request: requests come
\* one at a time and none after the restart, listings and launches succeed,
\* a launched script is not interrupted, and every step that can be taken
\* is taken in the end.
Restarted == \E d \in Callers : callers[d].kind = "restart" \/ callers[d].resp.sent

\* a gateway ends: by itself, or when a kill that had returned takes effect
GatewayExit(i) == stages[i] = "gateway" /\ ProcExit(i)

RelaunchStep(c) ==
  \/ EnsureFind(c, "ok")
  \/ EnsureLaunch(c, TRUE)
  \/ \E o \in {"up", "timeout"} : EnsureWait(c, o)
  \/ RestartFind(c, "ok")
  \/ \E o \in {"ok", "slow"} : RestartKill(c, o)
  \/ RestartGrace(c)
  \/ RestartRespond(c)

ScriptStep(i) == i \in 1..Len(stages) /\ (ScriptGuard(i) \/ ScriptExec(i))

NextRelaunch ==
  \/ \E c \in Callers : ~Restarted /\ InSequence(c) /\ CallEnsure(c)
  \/ \E c \in Callers : ~Restarted /\ InSequence(c) /\ CallRestart(c)
  \/ \E c \in Callers : RelaunchStep(c)
  \/ \E i \in 1..MaxProcs : ScriptStep(i)
  \/ \E i \in 1..Len(stages) : GatewayExit(i)

SpecRelaunch ==
  /\ InitSupervise /\ [][NextRelaunch]_vars
  /\ \A c \in Callers : WF_vars(RelaunchStep(c))
  /\ \A i \in 1..MaxProcs : WF_vars(ScriptStep(i))

\* -------------------------------------------------------------- SpecGate
\* The health gate on its own: every state directory it can be asked about
\* and every way its two check commands can end.
IdentitySizes == {1, 50, MinIdentityBytes, MinIdentityBytes + 1, 150}
GateDocs == {NoDoc, EmptyDoc} \cup {Doc(n, h) : n \in IdentitySizes, h \in BOOLEAN}
GateLocals ==
  {StateDir(c, l, NoFile, SkillsDir(d, NoFile, NoFile)) :
     c \in {NoFile, TemplateVer}, l \in {NoFile, TemplateVer}, d \in GateDocs}

GateResult(o1, o2, h) ==
  [op |-> "gate", o1 |-> o1, o2 |-> o2, healthy |-> h.healthy, reason |-> h.reason]

GateCheck(o1, o2) ==
  /\ CanStart
  /\ res' = GateResult(o1, o2, isSourceHealthy(local, o1, o2))
  /\ cmds' = GateCmds(local, o1, o2)
  /\ op' = [Idle EXCEPT !.name = "gate", !.pc = "done"]
  /\ UNCHANGED <<local, r2, clock, gw, mirror, snap, synced, procs, callers, stages>>

InitGate ==
  /\ local \in GateLocals
  /\ r2 = EmptyVolume
  /\ clock = 1
  /\ gw = "running"
  /\ op = Idle
  /\ mirror = NoMirror
  /\ res = NoResult
  /\ cmds = <<>>
  /\ snap = EmptyVolume
  /\ synced = 0
  /\ procs = <<>>
  /\ callers = NoCallers
  /\ stages = <<>>

NextGate ==
  \/ \E g \in GateOutcomes : GateCheck(g[1], g[2])
  \/ Return

SpecGate == InitGate /\ [][NextGate]_vars

\* ================================================================ claims
\* commands that write to the durable volume, and the health gate's commands
DurableWrites == {"backup", "prune", "mirror", "golden"}
GateCommands == {"configCheck", "identityCheck"}
Started(c) == \E i \in 1..Len(cmds) : cmds[i] = c

\* C1: when the health gate reports unhealthy, syncToR2 starts no versioned
\* backup command, no mirror command and no marker write, and returns with
\* the durable volume as it was before the call.
C1_RefusedSyncWritesNothing ==
  (op.name = "sync" /\ op.gate = "refused") =>
    /\ op.pc = "done"
    /\ \A c \in DurableWrites : ~Started(c)
    /\ ~Started("readMarker")
    /\ ~MirrorRunning
    /\ r2 = snap

\* a refused sync on a volume that holds a mirror, a marker and five backups
C1_Witness ==
  /\ op.name = "sync" /\ op.gate = "refused" /\ op.pc = "done"
  /\ res.skippedReason = ReasonNoConfig
  /\ Cardinality(r2.backups) = MAX_VERSIONED_BACKUPS
  /\ r2.marker # NoFile

\* C2: the durable marker is written only by the third part of the sync
\* command, and only when the two copies of that same command both succeeded;
\* a command one of whose copies failed never reaches the marker write.
C2_MarkerAfterBothCopies ==
  [][/\ (r2'.marker # r2.marker) =>
          /\ mirror.stage = "date"
          /\ mirror.copied = {"config", "skills"}
     /\ (mirror.stage = "failed") => (r2'.marker = r2.marker /\ mirror'.stage \in {"failed", "none", "config"})
     /\ (mirror'.stage = "date" /\ mirror.stage # "date") =>
          (mirror.stage = "skills" /\ mirror'.copied = {"config", "skills"})
    ]_vars

\* the marker of this sync is on the volume, after both copies
C2_Witness ==
  /\ op.name = "sync" /\ op.pc = "wait"
  /\ mirror.stage = "done" /\ mirror.copied = {"config", "skills"}
  /\ r2.marker = op.ts
  /\ snap.marker # op.ts

\* C3: after a syncToR2 that returned success and whose marker is the one on
\* the volume, a startup from a destroyed state directory with the volume
\* mounted ends, before the gateway is started, with the mirrored
\* configuration and skills files in the state directory and the local
\* marker equal to the durable one.
C3_StateSurvivesRecycle ==
  (/\ gw = "ready" /\ op.name = "boot" /\ op.pc = "done"
   /\ res.op = "boot" /\ res.fresh /\ res.mounted
   /\ synced > 0 /\ r2.marker = synced) =>
    /\ r2.openclaw # NoDir
    /\ local.cfg = r2.openclaw.cfg
    /\ r2.skills # NoDir
    /\ local.skills = r2.skills
    /\ local.marker = r2.marker

\* C4 as stated: at most five versioned backups exist in every state.
C4_AtMostFiveAlways == Cardinality(r2.backups) <= MAX_VERSIONED_BACKUPS

\* C4, amended: once the cleanup command of a sync has run, at most five
\* versioned backups exist until the next backup is created.
C4_AtMostFiveAfterCleanup ==
  op.pruned => Cardinality(r2.backups) <= MAX_VERSIONED_BACKUPS

\* the cleanup ran on six directories and left five
C4_Witness ==
  /\ op.pruned
  /\ Cardinality(snap.backups) = MAX_VERSIONED_BACKUPS
  /\ Cardinality(r2.backups) = MAX_VERSIONED_BACKUPS
  /\ r2.backups # snap.backups

\* C5: a sync that finds data makes one backup and its cleanup keeps the
\* newest five: with five or more there before, exactly five remain, every
\* directory removed is older than every directory kept, and the backup of
\* the current sync is among those kept. After six such syncs the first
\* backup is the one that is gone.
C5_RotationKeepsNewest ==
  op.pruned =>
    /\ \E b \in r2.backups : b.name = TimestampName(op.ts) /\ b.mtime = op.ts
    /\ \A b \in r2.backups : b \in snap.backups \/ b.name = TimestampName(op.ts)
    /\ Cardinality(snap.backups) >= MAX_VERSIONED_BACKUPS
         => Cardinality(r2.backups) = MAX_VERSIONED_BACKUPS
    /\ Cardinality(snap.backups) < MAX_VERSIONED_BACKUPS
         => Cardinality(r2.backups) = Cardinality(snap.backups) + 1
    /\ \A gone \in snap.backups \ r2.backups, kept \in r2.backups : gone.mtime < kept.mtime

\* the sixth sync in a row: backups 3..7 remain, the first (made at 2) is gone
C5_Witness ==
  /\ op.pruned /\ op.ts = MAX_VERSIONED_BACKUPS + 2
  /\ {b.mtime : b \in snap.backups} = 2..(MAX_VERSIONED_BACKUPS + 1)
  /\ {b.mtime : b \in r2.backups} = 3..(MAX_VERSIONED_BACKUPS + 2)

\* C6: no step of the engine removes or changes a golden backup that is on
\* the volume: the golden namespace only grows.
C6_GoldenOnlyGrows == [][\A g \in r2.golden : g \in r2'.golden]_vars

\* a second golden backup has been made and the earlier one is still there
C6_Witness ==
  /\ op.name = "golden" /\ res.success
  /\ PriorGolden(1) \in r2.golden
  /\ Cardinality(r2.golden) = 2
  /\ Cardinality(r2.backups) = MAX_VERSIONED_BACKUPS

\* C7: in syncToR2 and createGoldenBackup every command that writes to the
\* durable volume is started after the gate's check and only when the gate
\* passed; restoreFromBackup and the startup restore start no gate command.
C7_GateBeforeWritesNeverBeforeRestore ==
  /\ \A i \in 1..Len(cmds) :
       cmds[i] \in DurableWrites =>
         /\ op.name \in {"sync", "golden"}
         /\ op.gate = "passed"
         /\ \E j \in 1..(i - 1) : cmds[j] = "configCheck"
  /\ (op.name \in {"sync", "golden"} /\ op.gate # "none") => Started("configCheck")
  /\ op.name \in {"restore", "boot"} =>
       /\ op.gate = "none"
       /\ \A c \in GateCommands : ~Started(c)

\* a restore that succeeded in a container that never booted, whose state
\* directory the gate refuses
C7_Witness ==
  /\ op.name = "restore" /\ res.success /\ Started("restore")
  /\ gw = "stopped"
  /\ local.cfg = PriorVer

ContainsSeq(s, t) == \E i \in 0..(Len(s) - Len(t)) : SubSeq(s, i + 1, i + Len(t)) = t

\* C9: a sync the gate refused returns success=false with a non-empty
\* skippedReason, which is a reason of the gate for this state directory:
\* 'Missing openclaw.json' when there is no configuration file, a reason
\* containing 'does not exist' when the identity check reported the
\* identity document missing.
C9_RefusalReported ==
  (op.name = "sync" /\ op.gate = "refused") =>
    /\ res.op = "sync" /\ ~res.success
    /\ res.skippedReason # <<>>
    /\ \E g \in GateOutcomes :
         /\ ~isSourceHealthy(local, g[1], g[2]).healthy
         /\ res.skippedReason = isSourceHealthy(local, g[1], g[2]).reason
    /\ (local.cfg = NoFile /\ local.legacy = NoFile) =>
         res.skippedReason \in {<<"Missing", "openclaw.json">>, ReasonError(ExcMsg)}
    /\ (Started("identityCheck") /\ local.skills.identity.size < 0) =>
         \/ ContainsSeq(res.skippedReason, <<"does", "not", "exist">>)
         \/ res.skippedReason = ReasonError(ExcMsg)

\* a refusal for a missing identity document
C9_Witness ==
  /\ op.name = "sync" /\ op.gate = "refused"
  /\ local.cfg # NoFile
  /\ ContainsSeq(res.skippedReason, <<"does", "not", "exist">>)

\* C10: the gate needs both checks. Without a configuration file the result
\* is unhealthy; with one, an absent identity document is unhealthy
\* (missing), a 0-byte one unhealthy (empty), a non-empty one without a
\* heading or of at most 100 bytes unhealthy (minimal), one with a heading
\* and more than 100 bytes healthy; an exception gives unhealthy with the
\* exception's message in the reason.
C10_GateClassification ==
  res.op = "gate" =>
    LET d == local.skills.identity
        hasConfig == local.cfg # NoFile \/ local.legacy # NoFile
        threw == res.o1 = "throw" \/ (res.o1 = "ok" /\ hasConfig /\ res.o2 = "throw")
    IN /\ threw => (~res.healthy /\ res.reason = <<"Health", "check", "error:">> \o ExcMsg)
       /\ (res.o1 = "ok" /\ ~hasConfig) =>
            (~res.healthy /\ res.reason = <<"Missing", "openclaw.json">>)
       /\ res.healthy => hasConfig
       /\ (res.o1 = "ok" /\ res.o2 = "ok" /\ hasConfig) =>
            /\ d.size < 0 =>
                 (~res.healthy /\ ContainsSeq(res.reason, <<"does", "not", "exist">>))
            /\ d.size = 0 => (~res.healthy /\ ContainsSeq(res.reason, <<"is", "empty">>))
            /\ (d.size > 0 /\ (~d.heading \/ d.size <= MinIdentityBytes)) =>
                 (~res.healthy /\ ContainsSeq(res.reason, <<"minimal", "content">>))
            /\ (d.heading /\ d.size > MinIdentityBytes) => (res.healthy /\ res.reason = <<>>)
            /\ d = Doc(50, TRUE) => ~res.healthy
            /\ d = Doc(150, TRUE) => res.healthy

\* the gate has classified a 150-byte identity document with a heading
C10_Witness ==
  /\ res.op = "gate" /\ res.o1 = "ok" /\ res.o2 = "ok"
  /\ local.legacy # NoFile /\ local.cfg = NoFile
  /\ local.skills.identity = Doc(150, TRUE)
  /\ res.healthy


\* ------------------------------------------------------- startup restore
\* the startup script has run and its outcome is still in hand
BootDone == res.op = "boot" /\ op.pc = "done"

\* the state directory is not what the script makes of it without a volume
RestoreOccurred == local # BootInitConfig(res.before)

\* the volume holds something the restore section would copy
HasData(d) == BootLayout(d) # "none" \/ SkillsNonEmpty(d.skills)

\* C11: at startup, without a durable marker nothing is restored; with a
\* durable marker and no local one the volume is restored; with both (well
\* formed) the volume is restored exactly when the durable one is strictly newer.
C11_RestoreDecision ==
  (BootDone /\ res.mounted) =>
    /\ r2.marker = NoFile => ~RestoreOccurred
    /\ (r2.marker # NoFile /\ res.before.marker = NoFile /\ HasData(r2)) => RestoreOccurred
    /\ (r2.marker > 0 /\ res.before.marker > 0 /\ HasData(r2)) =>
         (RestoreOccurred <=> r2.marker > res.before.marker)

C11_Witness ==
  /\ BootDone /\ res.mounted
  /\ r2.marker = 2 /\ res.before.marker = 1
  /\ BootLayout(r2) = "current"
  /\ local.cfg = CurrentVer /\ local.marker = 2

Malformed(m) == m \in {Garbage, DateLikeGarbage, EmptyMarker}

\* C12: a marker that is not a timestamp counts as epoch zero: a malformed
\* durable marker never triggers a restore when a local marker exists, and a
\* malformed local marker with a well-formed durable one does.
C12_MalformedIsEpochZero ==
  (BootDone /\ res.mounted) =>
    /\ (Malformed(r2.marker) /\ res.before.marker # NoFile) => ~RestoreOccurred
    /\ (Malformed(res.before.marker) /\ r2.marker > 0 /\ HasData(r2)) => RestoreOccurred

HasCur(d) == d.openclaw # NoDir /\ d.openclaw.cfg # NoFile
HasStruct(d) == d.clawdbot # NoDir /\ d.clawdbot.legacy # NoFile
HasFlat(d) == d.flat # NoFile

\* C13: a startup restore takes the configuration of exactly one layout, the
\* current one before the structured legacy one before the flat legacy one,
\* a restored legacy configuration ends up under the current name, and a
\* configuration file exists whenever the gateway is about to start.
C13_OneLayoutByPriority ==
  /\ (BootDone /\ res.restored) =>
       /\ HasCur(r2) => local.cfg = r2.openclaw.cfg
       /\ (~HasCur(r2) /\ HasStruct(r2)) =>
            (local.cfg = r2.clawdbot.legacy /\ local.legacy = NoFile)
       /\ (~HasCur(r2) /\ ~HasStruct(r2) /\ HasFlat(r2)) =>
            (local.cfg = r2.flat /\ local.legacy = NoFile)
  /\ gw = "ready" => local.cfg # NoFile

C13_Witness ==
  /\ BootDone /\ res.restored
  /\ ~HasCur(r2) /\ HasStruct(r2) /\ HasFlat(r2)
  /\ local.cfg = StructVer /\ local.legacy = NoFile

\* every file of the volume's skills subtree is in the local one
SkillsCopied ==
  /\ r2.skills.identity.size >= 0 => local.skills.identity = r2.skills.identity
  /\ r2.skills.files # NoFile => local.skills.files = r2.skills.files
  /\ r2.skills.locks # NoFile => local.skills.locks = r2.skills.locks

\* C14: whenever the startup decision is to restore and the volume has a
\* non-empty skills subtree, that subtree is copied into the local one.
C14_SkillsRestoredWithConfig ==
  (/\ BootDone /\ res.mounted
   /\ should_restore_from_r2(r2, res.before, res.today)
   /\ SkillsNonEmpty(r2.skills)) => SkillsCopied


\* ------------------------------------------------------ restoreFromBackup
\* a path cut at its separators
RECURSIVE Split(_)
Split(s) ==
  IF s = <<>> THEN << <<>> >>
  ELSE LET r == Split(Tail(s)) IN
       IF Head(s) = "/" THEN << <<>> >> \o r
       ELSE << <<Head(s)>> \o Head(r) >> \o Tail(r)

\* the directories a path leads through, '.' and '..' resolved
RECURSIVE Resolve(_, _)
Resolve(segs, acc) ==
  IF segs = <<>> THEN acc
  ELSE IF Head(segs) \in {<<>>, <<".">>} THEN Resolve(Tail(segs), acc)
  ELSE IF Head(segs) = <<".", ".">>
  THEN Resolve(Tail(segs), IF acc = <<>> THEN acc ELSE SubSeq(acc, 1, Len(acc) - 1))
  ELSE Resolve(Tail(segs), Append(acc, Head(segs)))

NamespaceDir(kind) == IF kind = "golden" THEN <<"golden-backup">> ELSE <<"backups">>

\* the restore got as far as testing a path
RestoreAddressed == res.op = "restore" /\ Started("verify")

\* C15: the only path restoreFromBackup tests and reads is
\* <mount>/backups/<s> or <mount>/golden-backup/<s> of the namespace asked
\* for, with no '/' and no '.' in s, so it leads nowhere outside that namespace.
C15_OnlyNamespacePaths ==
  RestoreAddressed =>
    LET p == Resolve(Split(res.path), <<>>)
        n == Len(R2_MOUNT_PATH) + 3
    IN /\ Len(p) >= 3
       /\ SubSeq(p, 1, 3) = << <<"data">>, <<"openclaw">>, NamespaceDir(res.kind) >>
       /\ Len(res.path) >= n
       /\ \A i \in (n + 1)..Len(res.path) : res.path[i] \notin {"/", ".", " "}

C15_Witness ==
  /\ RestoreAddressed
  /\ res.kind = "versioned"
  /\ res.path = <<"/", "data", "/", "openclaw", "/", "backups", "/", "e", "t", "c">>

\* the path tested is a directory of the volume
PathListed ==
  \/ \E b \in Namespace(r2, res.kind) : res.path = backupPath(res.kind, b.name)
  \/ res.path = backupPath(res.kind, <<>>) /\ Namespace(r2, res.kind) # {}

\* C16 as stated: when the target directory does not exist the restore fails
\* with the not-found error, starts no copy and leaves the state directory
\* alone; and a copy that does not signal completion is reported as a failure.
C16_NotFoundAlways ==
  RestoreAddressed =>
    /\ ~PathListed =>
         /\ res.success = FALSE /\ res.error = "Backup not found"
         /\ ~Started("restore")
         /\ local = res.before
    /\ (Started("restore") /\ ~Includes(res.stdout, "restored")) => res.success = FALSE

\* C16 amended: the error is the not-found one unless the verify command
\* threw, and then it is the error thrown.
C16_NotFoundOrThrown ==
  RestoreAddressed =>
    /\ ~PathListed =>
         /\ res.success = FALSE /\ res.error \in {"Backup not found", "Unknown error"}
         /\ ~Started("restore")
         /\ local = res.before
    /\ (Started("restore") /\ ~Includes(res.stdout, "restored")) => res.success = FALSE

C16_Witness ==
  /\ RestoreAddressed /\ ~PathListed
  /\ Namespace(r2, "versioned") # {} /\ res.kind = "golden"
  /\ res.error = "Backup not found"
  /\ local = res.before

\* the backup directory a successful restore copied from
RestoredBackup == CHOOSE b \in Namespace(r2, res.kind) : res.path = backupPath(res.kind, b.name)

ChosenLayout(b) ==
  IF b.openclaw # NoDir THEN b.openclaw
  ELSE IF b.clawdbot # NoDir THEN b.clawdbot
  ELSE b.flat

LegacyLayout(b) ==
  /\ b.openclaw = NoDir
  /\ b.clawdbot # NoDir \/ (b.flat # NoDir /\ b.flat.cfg = NoFile)

\* C17: a successful restore copies the configuration of one layout of the
\* backup, the current directory before the legacy structured directory
\* before the flat files, turns a legacy-named configuration into the
\* current-named one only if there is no current-named one, and copies the
\* backup's skills subtree when it has one.
C17_LayoutOrderAndRename ==
  (/\ res.op = "restore" /\ res.success
   /\ \E b \in Namespace(r2, res.kind) : res.path = backupPath(res.kind, b.name)) =>
    LET b == RestoredBackup
        src == ChosenLayout(b)
        c1 == IF src = NoDir THEN res.before.cfg ELSE MergeFile(res.before.cfg, src.cfg)
        g1 == IF src = NoDir THEN res.before.legacy ELSE MergeFile(res.before.legacy, src.legacy)
    IN /\ IF LegacyLayout(b) /\ g1 # NoFile /\ c1 = NoFile
          THEN local.cfg = g1 /\ local.legacy = NoFile
          ELSE local.cfg = c1 /\ local.legacy = g1
       /\ b.skills # NoDir =>
            /\ b.skills.identity.size >= 0 => local.skills.identity = b.skills.identity
            /\ b.skills.files # NoFile => local.skills.files = b.skills.files

C17_Witness ==
  /\ res.op = "restore" /\ res.success
  /\ \E b \in Namespace(r2, res.kind) :
       /\ res.path = backupPath(res.kind, b.name)
       /\ b.openclaw = NoDir /\ b.clawdbot # NoDir /\ b.flat # NoDir /\ b.skills # NoDir
  /\ res.before.cfg = TemplateVer
  /\ local.cfg = TemplateVer /\ local.legacy = StructVer
  /\ local.skills.files = SkillsVer


\* ----------------------------------------------------------- findExisting
\* a listed process that is a gateway and has not ended
LiveGateway(p) == p.command \in GatewayCommands /\ p.status \in {"starting", "running"}

\* C18: findExisting returns a process exactly when the listing holds one
\* that was started as the gateway or by the startup script and is starting
\* or running; what it returns is such a process of the listing, never a
\* completed or failed one and never another command of the CLI.
C18_LiveGatewayIffFound ==
  (res.op = "find" /\ res.listed) =>
    /\ res.proc # NoProc <=> \E i \in 1..Len(procs) : LiveGateway(procs[i])
    /\ res.proc # NoProc => (LiveGateway(res.proc) /\ \E i \in 1..Len(procs) : procs[i] = res.proc)

C18_Witness ==
  /\ res.op = "find" /\ res.listed
  /\ Len(procs) = 2
  /\ procs[1].command = <<"clawdbot", "gateway">> /\ procs[1].status = "completed"
  /\ procs[2].command = <<"/usr/local/bin/", "start-clawdbot.sh">> /\ procs[2].status = "starting"
  /\ res.proc = procs[2]

\* C19: of several listed processes that match, findExisting returns the
\* first in listing order.
C19_FirstInListingOrder ==
  (res.op = "find" /\ res.listed /\ res.proc # NoProc) =>
    \E j \in 1..Len(procs) :
       /\ procs[j] = res.proc
       /\ \A i \in 1..(j - 1) : ~LiveGateway(procs[i])

C19_Witness ==
  /\ res.op = "find" /\ res.listed
  /\ Len(procs) = 2
  /\ LiveGateway(procs[1]) /\ LiveGateway(procs[2])
  /\ res.proc = procs[1]

\* C20: when the listing fails, findExisting returns none and raises no error.
C20_ListingFailureIsNone ==
  (res.op = "find" /\ ~res.listed) => (res.proc = NoProc /\ ~res.threw)

C20_Witness ==
  /\ res.op = "find" /\ ~res.listed
  /\ \E i \in 1..Len(procs) : LiveGateway(procs[i])
  /\ res.proc = NoProc /\ ~res.threw


\* ------------------------------------------------------ process supervisor
\* caller c's ensureRunning gets the answer of findExisting in this step
ListingStep(c) ==
  /\ callers[c].kind = "ensure" /\ callers[c].pc = "find"
  /\ callers'[c].pc # "find"

\* an earlier call has come back with the gateway's port open
EarlierCallUp(c) ==
  \E d \in Callers \ {c} : callers[d].pc = "done" /\ callers[d].outcome = "up"

C22_AtMostOneGateway ==
  \A i, j \in 1..Len(stages) : (stages[i] = "gateway" /\ stages[j] = "gateway") => i = j

\* caller c's restart sends its response in this step
RespondStep(c) == callers[c].kind = "restart" /\ callers'[c].resp.sent

\* C23: restart awaits the kill and then the grace period exactly when it
\* found a process, a kill that throws included; it then fires ensureRunning
\* and responds while that call has not got further than its listing; the
\* response tells whether a process was found.
C23_RestartOrder ==
  [][\A c \in Callers :
       RespondStep(c) =>
         /\ callers'[c].kind = "ensure" /\ callers'[c].pc = "find"
         /\ procs' = procs
         /\ callers'[c].resp.killedPrevious <=> callers[c].found # 0
         /\ callers'[c].resp.previousProcessId = callers[c].found
         /\ IF callers[c].found # 0
            THEN callers'[c].trace \in {<<"find", "kill", "grace", "fire">>,
                                       <<"find", "kill threw", "grace", "fire">>}
            ELSE callers'[c].trace = <<"find", "fire">>]_vars

C23_Witness ==
  \E c \in Callers :
    /\ callers[c].kind = "ensure" /\ callers[c].pc = "find"
    /\ callers[c].resp.sent /\ callers[c].resp.killedPrevious
    /\ callers[c].trace = <<"find", "kill threw", "grace", "fire">>
    /\ \E i \in 1..Len(procs) : LiveGateway(procs[i])


\* ---------------------------------------------------------- volume mounter
\* C24: mountR2Storage never throws; with a credential absent it returns
\* false and has not called mountBucket; with the credentials present it
\* calls mountBucket once and returns true exactly when that call succeeded.
C24_MountNeverThrows ==
  /\ op.name = "mount" => Len(cmds) <= 1
  /\ (res.op = "mount" /\ res.done) =>
       /\ ~res.threw
       /\ IF res.env.AWS_ACCESS_KEY_ID /\ res.env.AWS_SECRET_ACCESS_KEY /\ res.env.CF_ACCOUNT_ID
          THEN /\ cmds = <<"mountBucket">>
               /\ res.mounted <=> res.bucket = "ok"
          ELSE cmds = <<>> /\ res.bucket = "none" /\ ~res.mounted

C24_Witness ==
  /\ res.op = "mount" /\ res.done
  /\ res.env.AWS_ACCESS_KEY_ID /\ res.env.AWS_SECRET_ACCESS_KEY /\ res.env.CF_ACCOUNT_ID
  /\ res.bucket = "throw" /\ ~res.mounted
  /\ cmds = <<"mountBucket">>


\* ------------------------------------------------------------ sync entry
\* C25: syncToR2 called without its credentials returns success=false,
\* "R2 storage is not configured", having attempted no mount and started no
\* command; called with them and a mount that fails it returns success=false,
\* "Failed to mount R2 storage", having run no gate, backup or mirror.
C25_SyncFailsFast ==
  op.name = "sync" =>
    /\ (~op.env.R2_ACCESS_KEY_ID \/ ~op.env.R2_SECRET_ACCESS_KEY \/ ~op.env.CF_ACCOUNT_ID) =>
         /\ op.pc = "done" /\ ~res.success
         /\ res.error = "R2 storage is not configured"
         /\ cmds = <<>> /\ op.mount = "none"
         /\ r2 = snap /\ ~MirrorRunning
    /\ op.mount = "failed" =>
         /\ op.pc = "done" /\ ~res.success
         /\ res.error = "Failed to mount R2 storage"
         /\ cmds = <<"mount">> /\ op.gate = "none"
         /\ r2 = snap /\ ~MirrorRunning

C25_Witness ==
  /\ op.name = "sync" /\ op.pc = "done"
  /\ op.env = AllCreds /\ op.mount = "failed"
  /\ res.error = "Failed to mount R2 storage"
  /\ local = RunningLocal /\ r2 # EmptyVolume


\* ---------------------------------------------------- backup inside sync
\* C26: when createVersionedBackup returned success=false, syncToR2 still
\* starts the mirror command (the two copies and the marker write), and what
\* it returns is what the read-back of the marker gives: success with the
\* marker text when that is date-like, "Sync failed" otherwise, "Sync error"
\* when a sandbox call of the mirror or of the read-back threw, as after a
\* backup that succeeded.
C26_BackupFailureDoesNotBlock ==
  (op.name = "sync" /\ op.backup = "failed") =>
    /\ op.pc \in {"mirror", "wait", "done"}
    /\ op.pc \in {"wait", "done"} => Started("mirror")
    /\ op.pc = "done" =>
         IF op.threw
         THEN res = Result("sync", FALSE, "Sync error", <<>>, <<>>, <<>>)
         ELSE /\ Started("readMarker")
              /\ res.success <=> (op.out # <<>> /\ IsDateLike(op.out[1]))
              /\ res.success => res.lastSync = <<op.out[1]>>
              /\ ~res.success => res.error = "Sync failed"

C26_Witness ==
  /\ op.name = "sync" /\ op.backup = "failed" /\ op.pc = "done"
  /\ snap.openclaw # NoDir
  /\ res.success /\ res.lastSync = <<op.ts>>
  /\ r2.marker = op.ts
  /\ r2.openclaw = MirrorState(local, snap.openclaw)
  /\ r2.skills = local.skills


\* -------------------------------------------------- nothing to back up
\* the volume held no config under openclaw/ or clawdbot/ when the sync
\* began, and createVersionedBackup has returned
NoDataBackupReturned ==
  /\ op.name = "sync" /\ op.backup # "none"
  /\ ~HasCurrentData(snap) /\ ~HasLegacyData(snap)

\* C27 as stated: with no durable data under the current or the legacy
\* namespace createVersionedBackup succeeds with no path, creates no backup
\* directory and runs no prune.
C27_NoDataAlwaysSucceeds ==
  NoDataBackupReturned =>
    op.backup = "nodata" /\ r2.backups = snap.backups /\ ~Started("prune")

\* C27: with no durable data under the current or the legacy namespace
\* createVersionedBackup creates no backup directory and runs no prune; it
\* returns success with no path when it read the output of its command, and
\* success=false when the command could not be started or printed nothing.
C27_NoDataNoBackup ==
  NoDataBackupReturned =>
    /\ r2.backups = snap.backups
    /\ ~Started("prune") /\ ~op.pruned
    /\ op.backup \in {"nodata", "failed"}
    /\ \A o \in Outcomes \cup {"late"} :
         BackupVerdict(snap, o) = IF o = "ok" THEN "nodata" ELSE "failed"

C27_Witness ==
  /\ NoDataBackupReturned /\ op.backup = "nodata" /\ op.pc = "done"
  /\ Cardinality(snap.backups) > MAX_VERSIONED_BACKUPS
  /\ r2.backups = snap.backups
  /\ res.success


\* ------------------------------------------------------- prune failure
\* C28: once the copy into the new backup directory completed,
\* createVersionedBackup returns success=true with the new path, whatever
\* happens to the cleanup command (failing, timing out, failing to start).
C28_PruneFailureNotFatal ==
  (op.name = "sync" /\ Started("prune") /\ op.pc # "prune") =>
    op.backup = "created"


\* ------------------------------------------------------- golden backup
\* C29: createGoldenBackup called without credentials, with a mount that
\* fails or with a source the health gate refuses returns success=false and
\* leaves the golden-backup namespace as it was; when it returns success it
\* has added one directory to golden-backup, named by the call's timestamp,
\* a name no directory there had, and has changed nothing else on the volume.
C29_GoldenPreconditions ==
  (op.name = "golden" /\ op.pc = "done") =>
    /\ ( \/ ~op.env.R2_ACCESS_KEY_ID \/ ~op.env.R2_SECRET_ACCESS_KEY \/ ~op.env.CF_ACCOUNT_ID
         \/ op.mount = "failed"
         \/ op.gate = "refused" ) =>
           ~res.success /\ r2.golden = snap.golden /\ ~Started("golden")
    /\ res.success =>
         /\ op.mount = "ok" /\ op.gate = "passed"
         /\ [r2 EXCEPT !.golden = snap.golden] = snap
         /\ snap.golden \subseteq r2.golden
         /\ \E g \in r2.golden :
              /\ r2.golden \ snap.golden = {g}
              /\ g.name = TimestampName(op.ts)
              /\ g.name \notin Names(snap.golden)
              /\ res.path = g.name

C29_Witness ==
  /\ op.name = "golden" /\ op.pc = "done" /\ res.success
  /\ snap.golden # {}
  /\ Cardinality(r2.golden) = Cardinality(snap.golden) + 1


\* ----------------------------------------------------- backup contents
\* C30: the versioned backup a sync created holds the config, skills and
\* marker the volume held just before that sync's mirror ran, and stays so
\* for as long as it exists.
C30_BackupHoldsPriorState ==
  op.name = "sync" =>
    \A b \in r2.backups :
      b.name = TimestampName(op.ts) => b = NewBackup(snap, op.ts)


\* ------------------------------------------------------ access to the core
\* C31: a request is inside ensureRunning or restart only after the
\* bearer-token verification gate has passed for it.
C31_MutatingCallsGated ==
  \A c \in Callers :
    callers[c].kind \in {"ensure", "restart"} => callers[c].gate = "passed"


\* ------------------------------------------------- failures as results
\* C32: syncToR2, createGoldenBackup, listBackups and restoreFromBackup end
\* with a result value of their own for every way the mount and their
\* commands can end, a throwing startProcess or getLogs included; a result
\* that is not a success names its error.
C32_FailuresAreResults ==
  (op.pc = "done" /\ op.name \in {"sync", "golden", "list", "restore"}) =>
    /\ res.op = op.name
    /\ res.success \in BOOLEAN
    /\ ~res.success => res.error # ""

C32_Witness ==
  /\ op.pc = "done" /\ op.name = "list"
  /\ res.op = "list" /\ ~res.success /\ res.error = "Unknown error"
  /\ cmds = <<"mount", "list">>
  /\ r2.backups # {}


\* ------------------------------------------------------- bounded waits
\* C33: a sync whose mirror command is still running when the wait for it
\* has run out has ended, and has ended as a failure.
C33_OverrunIsFailure ==
  (op.name = "sync" /\ op.pc = "done" /\ cmds # <<>> /\ cmds[Len(cmds)] = "readMarker"
     /\ MirrorRunning) =>
    ~res.success


\* --------------------------------------------------- startup run twice
\* C34: a second run of the startup restore right after a first, on the same
\* day against the same mounted volume, copies nothing: neither the config
\* block nor the skills block restores, and the state directory with its
\* marker stays as the first run left it.
C34_SecondRunRestoresNothing ==
  [][(op.name = "again" /\ op'.name = "boot" /\ res.mounted /\ res'.mounted
        /\ res'.today = res.today) =>
       /\ local' = local
       /\ ~res'.restored
       /\ ~(SkillsNonEmpty(r2.skills)
              /\ should_restore_from_r2(r2, local', res'.today))]_vars


\* ------------------------------------------------- marker on both sides
\* C35: after a successful syncToR2 the state directory holds the sync
\* marker, with the value the volume holds.
C35_MarkerStoredOnBothSides ==
  (op.name = "sync" /\ op.pc = "done" /\ res.success) =>
    local.marker # NoFile /\ local.marker = r2.marker


\* ------------------------------------------------------- stale marker
\* C36: syncToR2 returns success only when the mirror of this call made both
\* copies and wrote the marker, and lastSync is the marker it wrote.
C36_SuccessMeansThisMirror ==
  (op.name = "sync" /\ op.pc = "done" /\ res.success) =>
    /\ mirror.copied = {"config", "skills"}
    /\ r2.marker = op.ts
    /\ res.lastSync = <<op.ts>>


\* ------------------------------------------------- unrecognised status
\* C37: isSourceHealthy answers healthy only when the output it read from
\* the identity check is the status healthy.
C37_HealthyOnlyOnHealthyStatus ==
  (res.op = "gate" /\ res.healthy) =>
    /\ Started("identityCheck")
    /\ Trim(Seen(res.o2, IdentityCheckOut(local)), NL) = <<"healthy">>


\* --------------------------------------------------------- empty name
\* C38: restoreFromBackup returns success only when the path it addressed
\* is a backup directory of the chosen namespace, never the namespace
\* directory itself, and the restore command found a config layout or a
\* skills subtree there to copy.
C38_SuccessNeedsNamedBackup ==
  (res.op = "restore" /\ res.success) =>
    /\ res.path # backupPath(res.kind, <<>>)
    /\ \E b \in Namespace(r2, res.kind) :
         /\ res.path = backupPath(res.kind, b.name)
         /\ \/ b.openclaw # NoDir \/ b.clawdbot # NoDir \/ b.flat # NoDir
            \/ b.skills # NoDir


\* ------------------------------------------------------ engine's names
\* the directory of the addressed namespace that bears the name given
NamedBackup == CHOOSE b \in Namespace(r2, res.kind) : b.name = res.name

\* C39: the names createVersionedBackup and createGoldenBackup give their
\* directories pass the sanitization unchanged, so do the names listBackups
\* returns, and restoreFromBackup called with the name of a directory of
\* the namespace addresses that directory and copies from no other.
C39_EngineNamesPassSanitize ==
  /\ \A b \in r2.backups \cup r2.golden : Sanitize(b.name) = b.name
  /\ res.op = "list" => \A n \in res.versioned \cup res.golden : Sanitize(n) = n
  /\ (res.op = "restore" /\ res.name \in Names(Namespace(r2, res.kind))) =>
       /\ res.path = backupPath(res.kind, res.name)
       /\ local \in {res.before, RestoreInto(res.before, NamedBackup)}
       /\ res.success => local = RestoreInto(res.before, NamedBackup)

C39_Witness ==
  /\ res.op = "restore" /\ res.success /\ res.kind = "versioned"
  /\ res.name = TimestampName(AdminStart + 1)
  /\ \A v \in AdminVolumes : res.name \notin Names(v.backups)
  /\ local = RestoreInto(res.before, NamedBackup)
  /\ local # res.before


\* --------------------------------------------------------- the relaunch
\* the relaunch of a restart that found process i and whose kill returned
\* is at its discovery, with room for one more process
RelaunchAfterKill(c, i) ==
  /\ callers[c].kind = "ensure" /\ callers[c].pc = "find"
  /\ callers[c].found = i
  /\ callers[c].trace = <<"find", "kill", "grace", "fire">>
  /\ Len(procs) < MaxProcs

NewGateway(i) == \E j \in 1..Len(stages) : j # i /\ stages[j] = "gateway"

\* C40: a restart that found a gateway and whose kill returned leads, with
\* no further request and with launches succeeding, to a gateway process
\* other than the one found.
C40_RestartLeadsToNewGateway ==
  \A c \in Callers : \A i \in 1..MaxProcs :
     RelaunchAfterKill(c, i) ~> NewGateway(i)

====
